---- MODULE Spec2Model ----
(***************************************************************************)
(* Configuration validation and derivation in leanstacks/react-starter.    *)
(*                                                                         *)
(* Two programs are modelled, one per run:                                 *)
(*   "infra"  infrastructure/utils/config.ts (getConfig, getTags,          *)
(*            getEnvironmentConfig) reading process.env;                   *)
(*   "app"    src/common/utils/config.ts (parseConfig) reading             *)
(*            import.meta.env.                                             *)
(*                                                                         *)
(* JavaScript values are tagged records: Undefined, Str(s), Num(tenths).   *)
(* An object (process.env, a parsed config) is a function from the keys it *)
(* owns to values; a key that is not in its DOMAIN reads as Undefined.     *)
(***************************************************************************)
EXTENDS Integers, Sequences, FiniteSets, TLC

VARIABLES
    program,      \* the program this run executes: "infra" or "app"
    processEnv,   \* process.env of the infrastructure process
    envOps,       \* number of environment mutations made so far
    config,       \* outcome of the last getConfig call
    earlier,      \* how the getConfig call before the last one ended
    tags,         \* outcome of the last getTags call
    awsEnv,       \* outcome of the last getEnvironmentConfig call
    metaEnv,      \* import.meta.env of the application
    appConfig,    \* outcome of parseConfig at module load (the exported config)
    request,      \* the last request useGetTask's query function made
    pc,           \* the statement of app.ts that runs next ("idle": app.ts is not run)
    stackProps,   \* the props a stack is constructed with
    frontendStack, \* outcome of new FrontendStack(...)
    cdnStack      \* outcome of new CdnStack(...)

vars ==
    <<program, processEnv, envOps, config, earlier, tags, awsEnv, metaEnv, appConfig,
      request, pc, stackProps, frontendStack, cdnStack>>

\* Most environment mutations (assignments, deletes) in one run.
MaxEnvOps == 2

----------------------------------------------------------------------------
(* JavaScript values *)

Undefined == [t |-> "undefined"]

Str(s) == [t |-> "string", v |-> s]

\* A number with one decimal digit: Num(15) is 1.5, Num(-10) is -1.
Num(n) == [t |-> "number", tenths |-> n]

IsString(x) == x.t = "string"

IsNumber(x) == x.t = "number"

\* obj[key] in JavaScript: undefined when the object has no such property.
Get(obj, key) == IF key \in DOMAIN obj THEN obj[key] ELSE Undefined

\* JavaScript truthiness of the values the model holds.
Truthy(x) ==
    CASE x.t = "undefined" -> FALSE
      [] x.t = "string"    -> x.v # ""
      [] x.t = "number"    -> x.tenths # 0

\* Mutant of Or: a ?? b, which keeps an empty string.
OrNullish(a, b) == IF a # Undefined THEN a ELSE b

\* a || b
Or(a, b) == IF Truthy(a) THEN a ELSE b

\* typeof-style name zod puts in "received ..." messages.
ReceivedType(x) == x.t

----------------------------------------------------------------------------
(* Outcomes of a call: what it was given and what came back *)

NotCalled == [kind |-> "none"]

Returned(in, v) == [kind |-> "returned", input |-> in, value |-> v]

Thrown(in, msg) == [kind |-> "thrown", input |-> in, message |-> msg]

----------------------------------------------------------------------------
(* Strings as characters, and the lexical grammars zod checks them against *)

\* The characters of the strings whose text a format check reads.
Chars(s) ==
    CASE s = "2026-02-11" -> <<"2", "0", "2", "6", "-", "0", "2", "-", "1", "1">>
      [] s = "1970-01-01" -> <<"1", "9", "7", "0", "-", "0", "1", "-", "0", "1">>
      [] s = "2026-02-30" -> <<"2", "0", "2", "6", "-", "0", "2", "-", "3", "0">>
      [] s = "2024-02-29" -> <<"2", "0", "2", "4", "-", "0", "2", "-", "2", "9">>
      [] s = "invalid-date" -> <<"i", "n", "v", "a", "l", "i", "d", "-", "d", "a", "t", "e">>
      [] s = "invalid" -> <<"i", "n", "v", "a", "l", "i", "d">>
      [] s = "14:30:00" -> <<"1", "4", ":", "3", "0", ":", "0", "0">>
      [] s = "14:30" -> <<"1", "4", ":", "3", "0">>
      [] s = "25:00:00" -> <<"2", "5", ":", "0", "0", ":", "0", "0">>
      [] s = "14:30:00+0000" -> <<"1", "4", ":", "3", "0", ":", "0", "0", "+", "0", "0", "0", "0">>
      [] s = "invalid-time" -> <<"i", "n", "v", "a", "l", "i", "d", "-", "t", "i", "m", "e">>
      [] s = "2026-02-11T14:30:00Z" -> <<"2", "0", "2", "6", "-", "0", "2", "-", "1", "1", "T", "1", "4", ":", "3", "0", ":", "0", "0", "Z">>
      [] s = "2026-02-10T14:30:00+0000" -> <<"2", "0", "2", "6", "-", "0", "2", "-", "1", "0", "T", "1", "4", ":", "3", "0", ":", "0", "0", "+", "0", "0", "0", "0">>
      [] s = "invalid-datetime" -> <<"i", "n", "v", "a", "l", "i", "d", "-", "d", "a", "t", "e", "t", "i", "m", "e">>
      [] s = "https://api.example.com" -> <<"h", "t", "t", "p", "s", ":", "/", "/", "a", "p", "i", ".", "e", "x", "a", "m", "p", "l", "e", ".", "c", "o", "m">>
      [] s = "http://localhost:3000" -> <<"h", "t", "t", "p", ":", "/", "/", "l", "o", "c", "a", "l", "h", "o", "s", "t", ":", "3", "0", "0", "0">>
      [] s = "not-a-valid-url" -> <<"n", "o", "t", "-", "a", "-", "v", "a", "l", "i", "d", "-", "u", "r", "l">>
      [] s = "invalid-url" -> <<"i", "n", "v", "a", "l", "i", "d", "-", "u", "r", "l">>
      [] s = "https://" -> <<"h", "t", "t", "p", "s", ":", "/", "/">>
      [] s = "" -> <<>>
      [] s = "0" -> <<"0">>
      [] s = "99" -> <<"9", "9">>
      [] s = "3" -> <<"3">>
      [] s = "3000" -> <<"3", "0", "0", "0">>
      [] s = "not-a-number" -> <<"n", "o", "t", "-", "a", "-", "n", "u", "m", "b", "e", "r">>

Digits == {"0", "1", "2", "3", "4", "5", "6", "7", "8", "9"}

Letters ==
    {"a", "b", "c", "d", "e", "f", "g", "h", "i", "j", "k", "l", "m",
     "n", "o", "p", "q", "r", "s", "t", "u", "v", "w", "x", "y", "z",
     "A", "B", "C", "D", "E", "F", "G", "H", "I", "J", "K", "L", "M",
     "N", "O", "P", "Q", "R", "S", "T", "U", "V", "W", "X", "Y", "Z"}

DigitValue(c) ==
    CASE c = "0" -> 0 [] c = "1" -> 1 [] c = "2" -> 2 [] c = "3" -> 3
      [] c = "4" -> 4 [] c = "5" -> 5 [] c = "6" -> 6 [] c = "7" -> 7
      [] c = "8" -> 8 [] c = "9" -> 9

AllDigits(cs) == \A i \in 1..Len(cs) : cs[i] \in Digits

\* The number a run of decimal digits spells.
RECURSIVE Decimal(_)
Decimal(cs) ==
    IF cs = <<>> THEN 0
    ELSE 10 * Decimal(SubSeq(cs, 1, Len(cs) - 1)) + DigitValue(cs[Len(cs)])

IsLeapYear(y) == (y % 4 = 0 /\ y % 100 # 0) \/ y % 400 = 0

DaysInMonth(y, m) ==
    IF m \in {1, 3, 5, 7, 8, 10, 12} THEN 31
    ELSE IF m \in {4, 6, 9, 11} THEN 30
    ELSE IF IsLeapYear(y) THEN 29 ELSE 28

\* zod's date regex: YYYY-MM-DD naming a day of the Gregorian calendar.
IsoDateChars(cs) ==
    /\ Len(cs) = 10
    /\ cs[5] = "-" /\ cs[8] = "-"
    /\ AllDigits(SubSeq(cs, 1, 4)) /\ AllDigits(SubSeq(cs, 6, 7)) /\ AllDigits(SubSeq(cs, 9, 10))
    /\ LET y == Decimal(SubSeq(cs, 1, 4))
           m == Decimal(SubSeq(cs, 6, 7))
           d == Decimal(SubSeq(cs, 9, 10))
       IN  m \in 1..12 /\ d \in 1..DaysInMonth(y, m)

\* zod's time regex with no precision given: HH:MM, HH:MM:SS or
\* HH:MM:SS.fraction; no offset and no Z.
IsoTimeChars(cs) ==
    /\ Len(cs) >= 5
    /\ AllDigits(SubSeq(cs, 1, 2)) /\ Decimal(SubSeq(cs, 1, 2)) \in 0..23
    /\ cs[3] = ":"
    /\ AllDigits(SubSeq(cs, 4, 5)) /\ Decimal(SubSeq(cs, 4, 5)) \in 0..59
    /\ \/ Len(cs) = 5
       \/ /\ Len(cs) >= 8
          /\ cs[6] = ":"
          /\ AllDigits(SubSeq(cs, 7, 8)) /\ Decimal(SubSeq(cs, 7, 8)) \in 0..59
          /\ \/ Len(cs) = 8
             \/ /\ Len(cs) >= 10
                /\ cs[9] = "."
                /\ AllDigits(SubSeq(cs, 10, Len(cs)))

\* zod's datetime regex with no options: date, "T", time, "Z"; neither a
\* local time nor an offset is accepted.
IsoDatetimeChars(cs) ==
    /\ Len(cs) >= 17
    /\ IsoDateChars(SubSeq(cs, 1, 10))
    /\ cs[11] = "T"
    /\ cs[Len(cs)] = "Z"
    /\ IsoTimeChars(SubSeq(cs, 12, Len(cs) - 1))

SpecialSchemes ==
    {<<"h", "t", "t", "p">>, <<"h", "t", "t", "p", "s">>, <<"f", "t", "p">>,
     <<"w", "s">>, <<"w", "s", "s">>}

\* cs without its leading slashes
RECURSIVE DropSlashes(_)
DropSlashes(cs) ==
    IF cs # <<>> /\ cs[1] \in {"/", "\\"} THEN DropSlashes(Tail(cs)) ELSE cs

\* new URL(s) does not throw: s begins with a scheme and a colon, and a
\* special scheme (http, https, ...) is followed by a non-empty host.
UrlChars(cs) ==
    \E i \in 2..Len(cs) :
        /\ cs[i] = ":"
        /\ \A j \in 1..(i - 1) : cs[j] # ":"
        /\ cs[1] \in Letters
        /\ \A j \in 2..(i - 1) : cs[j] \in Letters \cup Digits \cup {"+", "-", "."}
        /\ LET rest == DropSlashes(SubSeq(cs, i + 1, Len(cs)))
           IN  SubSeq(cs, 1, i - 1) \in SpecialSchemes
                  => (rest # <<>> /\ rest[1] \notin {"?", "#", ":"})

----------------------------------------------------------------------------
(* zod, as the two schemas use it *)

\* The issue zod raises when a value has the wrong JavaScript type.  A
\* message is kept as the sequence of the pieces it is concatenated from.
InvalidType(expected, x) ==
    <<"Invalid input: expected ", expected, ", received ", ReceivedType(x)>>

\* z.string()
ZodString(x) ==
    IF IsString(x) THEN [issues |-> <<>>, value |-> x]
    ELSE [issues |-> <<InvalidType("string", x)>>, value |-> Undefined]

\* Mutant of ZodEnum: the value is trimmed and lower-cased before the match.
ZodEnumNormalised(values, error, x) ==
    LET norm(v) == CASE v = "DEV" -> "dev" [] v = " dev " -> "dev" [] OTHER -> v
    IN  IF IsString(x) /\ norm(x.v) \in values
        THEN [issues |-> <<>>, value |-> Str(norm(x.v))]
        ELSE [issues |-> <<error>>, value |-> Undefined]

\* Mutant of ZodEnum: the custom error is given for a wrong value only, and a
\* missing value gets a message of its own.
ZodEnumRequiredMessage(values, error, x) ==
    IF IsString(x) /\ x.v \in values THEN [issues |-> <<>>, value |-> x]
    ELSE IF x = Undefined THEN [issues |-> <<<<"Required">>>>, value |-> Undefined]
    ELSE [issues |-> <<error>>, value |-> Undefined]

\* z.enum(values, error): the value must be one of the strings, exactly;
\* the custom error replaces the message of every issue the enum raises.
ZodEnum(values, error, x) ==
    IF IsString(x) /\ x.v \in values THEN [issues |-> <<>>, value |-> x]
    ELSE [issues |-> <<error>>, value |-> Undefined]

\* Mutant of ZodFormat: z.string() where the format was meant.
ZodFormatUnchecked(matches, name, x) ==
    IF ~IsString(x) THEN [issues |-> <<InvalidType("string", x)>>, value |-> Undefined]
    ELSE [issues |-> <<>>, value |-> x]

\* A string format: z.iso.date(), z.iso.time(), z.iso.datetime(), z.url().
ZodFormat(matches, name, x) ==
    IF ~IsString(x) THEN [issues |-> <<InvalidType("string", x)>>, value |-> Undefined]
    ELSE IF matches THEN [issues |-> <<>>, value |-> x]
    ELSE [issues |-> <<<<"Invalid ", name>>>>, value |-> Undefined]

ZodIsoDate(x) == ZodFormat(IsString(x) /\ IsoDateChars(Chars(x.v)), "ISO date", x)

ZodIsoTime(x) == ZodFormat(IsString(x) /\ IsoTimeChars(Chars(x.v)), "ISO time", x)

ZodIsoDatetime(x) ==
    ZodFormat(IsString(x) /\ IsoDatetimeChars(Chars(x.v)), "ISO datetime", x)

ZodUrl(x) == ZodFormat(IsString(x) /\ UrlChars(Chars(x.v)), "URL", x)

\* z.number().int().nonnegative(): the input must already be a number (no
\* coercion); then an integer; then >= 0.  The integer check stops the
\* checks that follow it when it fails.
ZodNonnegativeInt(x) ==
    IF ~IsNumber(x) THEN [issues |-> <<InvalidType("number", x)>>, value |-> Undefined]
    ELSE IF x.tenths % 10 # 0
         THEN [issues |-> <<InvalidType("int", x)>>, value |-> Undefined]
    ELSE IF x.tenths < 0
         THEN [issues |-> <<<<"Too small: expected number to be >=0">>>>, value |-> Undefined]
    ELSE [issues |-> <<>>, value |-> x]

\* Mutant of ParseField: the default also stands in for an invalid value.
ParseFieldDefaultOnInvalid(f, x) ==
    LET r == CASE f.kind = "string"   -> ZodString(x)
               [] f.kind = "enum"     -> ZodEnum(f.values, f.error, x)
               [] f.kind = "date"     -> ZodIsoDate(x)
               [] f.kind = "time"     -> ZodIsoTime(x)
               [] f.kind = "datetime" -> ZodIsoDatetime(x)
               [] f.kind = "url"      -> ZodUrl(x)
               [] f.kind = "int"      -> ZodNonnegativeInt(x)
    IN  IF f.hasDefault /\ (x = Undefined \/ r.issues # <<>>)
        THEN [issues |-> <<>>, value |-> f.default]
        ELSE IF x = Undefined /\ f.optional THEN [issues |-> <<>>, value |-> Undefined]
        ELSE r

\* Mutant of ParseField: an undefined input passes every field.
ParseFieldAllOptional(f, x) ==
    IF x = Undefined /\ f.hasDefault THEN [issues |-> <<>>, value |-> f.default]
    ELSE IF x = Undefined THEN [issues |-> <<>>, value |-> Undefined]
    ELSE CASE f.kind = "string"   -> ZodString(x)
           [] f.kind = "enum"     -> ZodEnum(f.values, f.error, x)
           [] f.kind = "date"     -> ZodIsoDate(x)
           [] f.kind = "time"     -> ZodIsoTime(x)
           [] f.kind = "datetime" -> ZodIsoDatetime(x)
           [] f.kind = "url"      -> ZodUrl(x)
           [] f.kind = "int"      -> ZodNonnegativeInt(x)

\* Mutant of ParseField: the default also stands in for an empty string.
ParseFieldDefaultOnEmpty(f, x) ==
    IF (x = Undefined \/ x = Str("")) /\ f.hasDefault
    THEN [issues |-> <<>>, value |-> f.default]
    ELSE IF x = Undefined /\ f.optional THEN [issues |-> <<>>, value |-> Undefined]
    ELSE CASE f.kind = "string"   -> ZodString(x)
           [] f.kind = "enum"     -> ZodEnum(f.values, f.error, x)
           [] f.kind = "date"     -> ZodIsoDate(x)
           [] f.kind = "time"     -> ZodIsoTime(x)
           [] f.kind = "datetime" -> ZodIsoDatetime(x)
           [] f.kind = "url"      -> ZodUrl(x)
           [] f.kind = "int"      -> ZodNonnegativeInt(x)

\* The schema of one field, applied to the raw value found under its key.
\* .default(d) and .optional() answer for an undefined input themselves and
\* hand every other input to the inner type.
ParseField(f, x) ==
    IF x = Undefined /\ f.hasDefault THEN [issues |-> <<>>, value |-> f.default]
    ELSE IF x = Undefined /\ f.optional THEN [issues |-> <<>>, value |-> Undefined]
    ELSE CASE f.kind = "string"   -> ZodString(x)
           [] f.kind = "enum"     -> ZodEnum(f.values, f.error, x)
           [] f.kind = "date"     -> ZodIsoDate(x)
           [] f.kind = "time"     -> ZodIsoTime(x)
           [] f.kind = "datetime" -> ZodIsoDatetime(x)
           [] f.kind = "url"      -> ZodUrl(x)
           [] f.kind = "int"      -> ZodNonnegativeInt(x)

\* Mutant of ObjectIssues: the parse stops at the first field that fails.
RECURSIVE ObjectIssuesFirstOnly(_, _, _)
ObjectIssuesFirstOnly(shape, input, i) ==
    IF i > Len(shape) THEN <<>>
    ELSE LET f == shape[i]
             r == ParseField(f, Get(input, f.key))
         IN  IF r.issues # <<>>
             THEN [j \in 1..Len(r.issues) |-> [path |-> f.key, message |-> r.issues[j]]]
             ELSE ObjectIssuesFirstOnly(shape, input, i + 1)

\* error.issues of a failed z.object parse: every field's issues, in the
\* order of the schema's keys, each with the key as its path.
RECURSIVE ObjectIssues(_, _, _)
ObjectIssues(shape, input, i) ==
    IF i > Len(shape) THEN <<>>
    ELSE LET f == shape[i]
             r == ParseField(f, Get(input, f.key))
         IN  [j \in 1..Len(r.issues) |-> [path |-> f.key, message |-> r.issues[j]]]
             \o ObjectIssues(shape, input, i + 1)

\* The data of a successful z.object parse: the declared keys whose parsed
\* value is defined; keys the schema does not declare are stripped.
ObjectData(shape, input) ==
    LET out(i) == ParseField(shape[i], Get(input, shape[i].key)).value
        kept == {i \in 1..Len(shape) : out(i) # Undefined}
    IN  [k \in {shape[i].key : i \in kept} |->
            out(CHOOSE i \in 1..Len(shape) : shape[i].key = k)]

\* Mutant of ZodObject: .passthrough(), the keys the schema does not declare
\* are kept.
ZodObjectPassthrough(shape, input) ==
    LET issues == ObjectIssues(shape, input, 1)
        data == ObjectData(shape, input)
    IN  IF issues = <<>>
        THEN [success |-> TRUE,
              data |-> [k \in DOMAIN data \cup DOMAIN input |->
                          IF k \in DOMAIN data THEN data[k] ELSE input[k]]]
        ELSE [success |-> FALSE, issues |-> issues]

\* schema.safeParse(input)
ZodObject(shape, input) ==
    LET issues == ObjectIssues(shape, input, 1)
    IN  IF issues = <<>>
        THEN [success |-> TRUE, data |-> ObjectData(shape, input)]
        ELSE [success |-> FALSE, issues |-> issues]

\* Mutant of ErrorMessage: the joined entries are thrown without the prefix.
ErrorMessageNoPrefix(prefix, sep, issues) ==
    [prefix |-> "", sep |-> sep, entries |-> issues]

\* issues.map((e) => `${e.path.join('.')}: ${e.message}`).join(sep), after a
\* prefix: the text is kept as its prefix, its separator and its entries.
ErrorMessage(prefix, sep, issues) ==
    [prefix |-> prefix, sep |-> sep, entries |-> issues]

----------------------------------------------------------------------------
(* infrastructure/utils/config.ts *)

StringField(key) ==
    [key |-> key, kind |-> "string", optional |-> FALSE, hasDefault |-> FALSE]

OptionalString(key) ==
    [key |-> key, kind |-> "string", optional |-> TRUE, hasDefault |-> FALSE]

\* Mutant of DefaultString: .optional() where .default(d) was meant.
DefaultStringForgotten(key, d) ==
    [key |-> key, kind |-> "string", optional |-> TRUE, hasDefault |-> FALSE,
     default |-> Str(d)]

DefaultString(key, d) ==
    [key |-> key, kind |-> "string", optional |-> FALSE, hasDefault |-> TRUE,
     default |-> Str(d)]

CdkEnvValues == {"dev", "qa", "prd"}

\* Mutant of CdkEnvError: the message was not kept in step with the enum.
CdkEnvErrorStale == <<"CDK_ENV must be one of: ", "dev", ", ", "prod">>

\* 'CDK_ENV must be one of: dev, qa, prd', as the pieces it is read in
CdkEnvError == <<"CDK_ENV must be one of: ", "dev", ", ", "qa", ", ", "prd">>

configSchema ==
    << DefaultString("CDK_APP_NAME", "react-starter"),
       [key |-> "CDK_ENV", kind |-> "enum", optional |-> FALSE, hasDefault |-> FALSE,
        values |-> CdkEnvValues, error |-> CdkEnvError],
       OptionalString("CDK_ACCOUNT"),
       OptionalString("CDK_REGION"),
       DefaultString("CDK_OU", "unknown"),
       DefaultString("CDK_OWNER", "unknown"),
       DefaultString("CDK_ASSET_PATH", "../dist"),
       OptionalString("CDK_DOMAIN_NAME"),
       OptionalString("CDK_CERTIFICATE_ARN"),
       OptionalString("CDK_HOSTED_ZONE_ID"),
       OptionalString("CDK_HOSTED_ZONE_NAME"),
       DefaultString("CDK_STORYBOOK_ASSET_PATH", "../storybook-static"),
       OptionalString("CDK_STORYBOOK_DOMAIN_NAME"),
       OptionalString("CDK_STORYBOOK_CERTIFICATE_ARN"),
       OptionalString("CDK_STORYBOOK_HOSTED_ZONE_ID"),
       OptionalString("CDK_STORYBOOK_HOSTED_ZONE_NAME") >>

CdkErrorPrefix == "CDK configuration validation failed: "

\* Mutant of getConfig: the first record parsed is kept and handed out again.
getConfigCached(env) ==
    IF config.kind = "returned" THEN config
    ELSE LET parsed == ZodObject(configSchema, env)
         IN  IF parsed.success
             THEN Returned(env, parsed.data)
             ELSE Thrown(env, ErrorMessage(CdkErrorPrefix, ", ", parsed.issues))

\* Mutant of getConfig: what the parse could make of the input is returned
\* whether or not the parse succeeded.
getConfigUnchecked(env) == Returned(env, ObjectData(configSchema, env))

\* getConfig(): parse process.env; a ZodError becomes one Error whose message
\* lists every issue.
getConfig(env) ==
    LET parsed == ZodObject(configSchema, env)
    IN  IF parsed.success
        THEN Returned(env, parsed.data)
        ELSE Thrown(env, ErrorMessage(CdkErrorPrefix, ", ", parsed.issues))

\* Mutant of getTags: an empty OU or owner is reported as "unknown".
getTagsOrUnknown(cfg) ==
    [App   |-> Get(cfg, "CDK_APP_NAME"),
     Env   |-> Get(cfg, "CDK_ENV"),
     OU    |-> Or(Get(cfg, "CDK_OU"), Str("unknown")),
     Owner |-> Or(Get(cfg, "CDK_OWNER"), Str("unknown"))]

\* getTags(config)
getTags(cfg) ==
    [App   |-> Get(cfg, "CDK_APP_NAME"),
     Env   |-> Get(cfg, "CDK_ENV"),
     OU    |-> Get(cfg, "CDK_OU"),
     Owner |-> Get(cfg, "CDK_OWNER")]

\* Mutant of getEnvironmentConfig: `account || region` guards the return.
getEnvironmentConfigEither(cfg, env) ==
    LET account == Or(Get(cfg, "CDK_ACCOUNT"), Get(env, "CDK_DEFAULT_ACCOUNT"))
        region  == Or(Get(cfg, "CDK_REGION"), Get(env, "CDK_DEFAULT_REGION"))
    IN  IF Truthy(account) \/ Truthy(region)
        THEN [account |-> account, region |-> region]
        ELSE Undefined

\* Mutant of getEnvironmentConfig: the CDK_DEFAULT_* value is tried first.
getEnvironmentConfigDefaultFirst(cfg, env) ==
    LET account == Or(Get(env, "CDK_DEFAULT_ACCOUNT"), Get(cfg, "CDK_ACCOUNT"))
        region  == Or(Get(env, "CDK_DEFAULT_REGION"), Get(cfg, "CDK_REGION"))
    IN  IF Truthy(account) /\ Truthy(region)
        THEN [account |-> account, region |-> region]
        ELSE Undefined

\* Mutant of getEnvironmentConfig: no fallback to CDK_DEFAULT_*.
getEnvironmentConfigNoFallback(cfg, env) ==
    LET account == Get(cfg, "CDK_ACCOUNT")
        region  == Get(cfg, "CDK_REGION")
    IN  IF Truthy(account) /\ Truthy(region)
        THEN [account |-> account, region |-> region]
        ELSE Undefined

\* Mutant of getEnvironmentConfig: the explicit pair or the default pair, never
\* one value of each.
getEnvironmentConfigPairwise(cfg, env) ==
    IF Truthy(Get(cfg, "CDK_ACCOUNT")) /\ Truthy(Get(cfg, "CDK_REGION"))
    THEN [account |-> Get(cfg, "CDK_ACCOUNT"), region |-> Get(cfg, "CDK_REGION")]
    ELSE IF Truthy(Get(env, "CDK_DEFAULT_ACCOUNT")) /\ Truthy(Get(env, "CDK_DEFAULT_REGION"))
    THEN [account |-> Get(env, "CDK_DEFAULT_ACCOUNT"),
          region |-> Get(env, "CDK_DEFAULT_REGION")]
    ELSE Undefined

\* Mutant of getEnvironmentConfig: CDK_ACCOUNT and CDK_REGION are read from
\* process.env, as the defaults are.
getEnvironmentConfigFromEnv(cfg, env) ==
    LET account == Or(Get(env, "CDK_ACCOUNT"), Get(env, "CDK_DEFAULT_ACCOUNT"))
        region  == Or(Get(env, "CDK_REGION"), Get(env, "CDK_DEFAULT_REGION"))
    IN  IF Truthy(account) /\ Truthy(region)
        THEN [account |-> account, region |-> region]
        ELSE Undefined

\* getEnvironmentConfig(config), reading CDK_DEFAULT_* from process.env
getEnvironmentConfig(cfg, env) ==
    LET account == Or(Get(cfg, "CDK_ACCOUNT"), Get(env, "CDK_DEFAULT_ACCOUNT"))
        region  == Or(Get(cfg, "CDK_REGION"), Get(env, "CDK_DEFAULT_REGION"))
    IN  IF Truthy(account) /\ Truthy(region)
        THEN [account |-> account, region |-> region]
        ELSE Undefined

----------------------------------------------------------------------------
(* The environments a run starts from and the values a variable is given *)

\* A function from a set of keys, written as a set of <<key, string>> pairs.
EnvOf(pairs) ==
    [k \in {p[1] : p \in pairs} |-> Str((CHOOSE p \in pairs : p[1] = k)[2])]

\* config.test.ts, "should return valid configuration when CDK_ENV is set",
\* without the domain group: nothing but CDK_ENV.
EnvMinimal == EnvOf({<<"CDK_ENV", "dev">>})

\* config.test.ts, "should return configuration with optional values"
EnvFull ==
    EnvOf({ <<"CDK_APP_NAME", "my-app">>,
            <<"CDK_ENV", "prd">>,
            <<"CDK_DOMAIN_NAME", "my-app.prd.example.com">>,
            <<"CDK_CERTIFICATE_ARN", "arn:aws:acm:us-east-1:123456789012:certificate/my-cert">>,
            <<"CDK_HOSTED_ZONE_ID", "Z0987654321FEDCBAXYZ">>,
            <<"CDK_HOSTED_ZONE_NAME", "prd.example.com">>,
            <<"CDK_ACCOUNT", "123456789012">>,
            <<"CDK_REGION", "us-east-1">>,
            <<"CDK_OU", "leanstacks">>,
            <<"CDK_OWNER", "platform-team">>,
            <<"CDK_ASSET_PATH", "../custom-dist">>,
            <<"CDK_STORYBOOK_ASSET_PATH", "../custom-storybook">>,
            <<"CDK_STORYBOOK_DOMAIN_NAME", "my-app-storybook.prd.example.com">>,
            <<"CDK_STORYBOOK_CERTIFICATE_ARN", "arn:aws:acm:us-east-1:123456789012:certificate/my-cert-storybook">>,
            <<"CDK_STORYBOOK_HOSTED_ZONE_ID", "Z0987654321FEDCBAXYZ">>,
            <<"CDK_STORYBOOK_HOSTED_ZONE_NAME", "prd.example.com">> })

\* An environment with no CDK_ variable at all.
EnvEmpty == EnvOf({})

\* config.test.ts, "should return account and region from CDK_ACCOUNT and
\* CDK_REGION": the variables the test's config is read from.
EnvExplicit ==
    EnvOf({ <<"CDK_ENV", "dev">>,
            <<"CDK_ACCOUNT", "123456789012">>,
            <<"CDK_REGION", "us-west-2">> })

\* config.test.ts, "should fallback to CDK_DEFAULT_ACCOUNT and
\* CDK_DEFAULT_REGION"
EnvFallback ==
    EnvOf({ <<"CDK_ENV", "dev">>,
            <<"CDK_DEFAULT_ACCOUNT", "987654321098">>,
            <<"CDK_DEFAULT_REGION", "eu-west-1">> })

\* config.test.ts, "should prefer CDK_ACCOUNT over CDK_DEFAULT_ACCOUNT"
EnvPreferExplicit ==
    EnvOf({ <<"CDK_ENV", "prd">>,
            <<"CDK_ACCOUNT", "999999999999">>,
            <<"CDK_REGION", "ap-southeast-2">>,
            <<"CDK_DEFAULT_ACCOUNT", "111111111111">>,
            <<"CDK_DEFAULT_REGION", "us-east-1">> })

ResolverEnvs == {EnvExplicit, EnvFallback, EnvPreferExplicit}

\* The variables getEnvironmentConfig's result can depend on.
ResolverKeys == {"CDK_ACCOUNT", "CDK_REGION", "CDK_DEFAULT_ACCOUNT", "CDK_DEFAULT_REGION"}

InitialEnvs == {EnvEmpty, EnvMinimal, EnvFull}

SchemaKeys == {configSchema[i].key : i \in 1..Len(configSchema)}

\* Variables getEnvironmentConfig reads and one the schema does not declare.
OtherKeys == {"CDK_DEFAULT_ACCOUNT", "CDK_DEFAULT_REGION", "PATH"}

EnvKeys == SchemaKeys \cup OtherKeys

\* The strings a run may assign to a variable.
EnvValues(k) ==
    CASE k = "CDK_ENV"      -> {"dev", "qa", "prd", "DEV", " dev ", "invalid", ""}
      [] k = "CDK_APP_NAME" -> {"my-app", ""}
      [] k = "CDK_OU"       -> {"leanstacks", ""}
      [] k = "CDK_OWNER"    -> {"platform-team"}
      [] k = "CDK_ASSET_PATH" -> {"../custom-dist"}
      [] k = "CDK_STORYBOOK_ASSET_PATH" -> {"../custom-storybook"}
      [] k = "CDK_ACCOUNT"  -> {"123456789012", ""}
      [] k = "CDK_REGION"   -> {"us-west-2", ""}
      [] k = "CDK_DEFAULT_ACCOUNT" -> {"111111111111", ""}
      [] k = "CDK_DEFAULT_REGION"  -> {"eu-west-1", ""}
      [] k = "CDK_DOMAIN_NAME"      -> {"react-starter.dev.example.com"}
      [] k = "CDK_CERTIFICATE_ARN"  -> {"arn:aws:acm:us-east-1:123456789012:certificate/test"}
      [] k = "CDK_HOSTED_ZONE_ID"   -> {"Z1234567890ABCDEFGHI"}
      [] k = "CDK_HOSTED_ZONE_NAME" -> {"dev.example.com"}
      [] k = "CDK_STORYBOOK_DOMAIN_NAME"      -> {"storybook.dev.example.com"}
      [] k = "CDK_STORYBOOK_CERTIFICATE_ARN"  -> {"arn:aws:acm:us-east-1:123456789012:certificate/sb"}
      [] k = "CDK_STORYBOOK_HOSTED_ZONE_ID"   -> {"Z1234567890ABC"}
      [] k = "CDK_STORYBOOK_HOSTED_ZONE_NAME" -> {"example.com"}
      [] k = "PATH" -> {"/usr/bin"}

\* env with env[k] = x
Assign(env, k, x) ==
    [j \in DOMAIN env \cup {k} |-> IF j = k THEN x ELSE env[j]]

\* env after delete env[k]
Delete(env, k) == [j \in DOMAIN env \ {k} |-> env[j]]

----------------------------------------------------------------------------
(* infrastructure/stacks: what a stack's constructor creates *)

\* distribution.distributionDomainName: the name CloudFront gives the
\* distribution, known at deployment.
DistributionDomainName == [t |-> "token", v |-> "distribution.distributionDomainName"]

\* Mutant of LoadCertificate: the certificate is loaded whenever the prop is
\* given, `if (props.certificateArn !== undefined)`.
LoadCertificateIfGiven(props) ==
    IF Get(props, "certificateArn") # Undefined
    THEN [certificateArn |-> props.certificateArn]
    ELSE Undefined

\* certificatemanager.Certificate.fromCertificateArn(...) under
\* `if (props.certificateArn)`
LoadCertificate(props) ==
    IF Truthy(Get(props, "certificateArn"))
    THEN [certificateArn |-> props.certificateArn]
    ELSE Undefined

\* baseDistributionProps
BaseDistributionProps ==
    [defaultRootObject |-> "index.html", priceClass |-> "PRICE_CLASS_100", enableIpv6 |-> TRUE]

\* Mutant of DistributionProps: the domain name alone adds the alias.
DistributionPropsDomainOnly(props, certificate) ==
    IF Truthy(Get(props, "domainName"))
    THEN [defaultRootObject |-> "index.html", priceClass |-> "PRICE_CLASS_100",
          enableIpv6 |-> TRUE,
          domainNames |-> <<props.domainName>>, certificate |-> certificate]
    ELSE BaseDistributionProps

\* props.domainName && this.certificate ? {...base, domainNames, certificate} : base
DistributionProps(props, certificate) ==
    IF Truthy(Get(props, "domainName")) /\ certificate # Undefined
    THEN [defaultRootObject |-> "index.html", priceClass |-> "PRICE_CLASS_100",
          enableIpv6 |-> TRUE,
          domainNames |-> <<props.domainName>>, certificate |-> certificate]
    ELSE BaseDistributionProps

\* Mutant of HasHostedZone: the hosted zone's name is not asked for.
HasHostedZoneNoName(props) ==
    /\ Truthy(Get(props, "domainName"))
    /\ Truthy(Get(props, "hostedZoneId"))

\* props.domainName && props.hostedZoneId && props.hostedZoneName
HasHostedZone(props) ==
    /\ Truthy(Get(props, "domainName"))
    /\ Truthy(Get(props, "hostedZoneId"))
    /\ Truthy(Get(props, "hostedZoneName"))

\* new route53.ARecord / AaaaRecord(...): an alias record of the hosted zone
\* for the domain name, targeting the distribution.  Its domainName is the
\* name of the record.
RecordSet(type, props) ==
    [type |-> type,
     zone |-> [hostedZoneId |-> Get(props, "hostedZoneId"),
               zoneName |-> Get(props, "hostedZoneName")],
     recordName |-> Get(props, "domainName"),
     domainName |-> Get(props, "domainName"),
     target |-> "distribution"]

\* new CdnStack(scope, id, props)
CdnStack(props) ==
    LET certificate == LoadCertificate(props)
        aRecord    == IF HasHostedZone(props) THEN RecordSet("A", props) ELSE Undefined
        aaaaRecord == IF HasHostedZone(props) THEN RecordSet("AAAA", props) ELSE Undefined
        outputs == [BucketName |-> "bucket.bucketName",
                    DistributionId |-> "distribution.distributionId",
                    DistributionDomainName |-> DistributionDomainName,
                    ApplicationUrl |->
                        <<"https://", IF aRecord # Undefined THEN aRecord.domainName
                                      ELSE DistributionDomainName>>]
    IN  [certificate |-> certificate,
         distribution |-> DistributionProps(props, certificate),
         aRecord |-> aRecord,
         aaaaRecord |-> aaaaRecord,
         outputs |-> IF aRecord # Undefined
                     THEN Assign(outputs, "CustomDomainName", aRecord.domainName)
                     ELSE outputs]

\* Mutant of FrontendStack: its outputs follow the A record, as CdnStack's do.
FrontendStackOutputsOnRecord(props) == CdnStack(props)

\* new FrontendStack(scope, id, props): the records are created and not kept
\* as properties; they are listed here as the resources of the stack.
FrontendStack(props) ==
    LET certificate == LoadCertificate(props)
        outputs == [BucketName |-> "bucket.bucketName",
                    DistributionId |-> "distribution.distributionId",
                    DistributionDomainName |-> DistributionDomainName,
                    ApplicationUrl |->
                        <<"https://", IF Truthy(Get(props, "domainName")) THEN props.domainName
                                      ELSE DistributionDomainName>>]
    IN  [certificate |-> certificate,
         distribution |-> DistributionProps(props, certificate),
         aRecord |-> IF HasHostedZone(props) THEN RecordSet("A", props) ELSE Undefined,
         aaaaRecord |-> IF HasHostedZone(props) THEN RecordSet("AAAA", props) ELSE Undefined,
         outputs |-> IF Truthy(Get(props, "domainName"))
                     THEN Assign(outputs, "CustomDomainName", props.domainName)
                     ELSE outputs]

\* The props of the stack tests: the three required ones, and each of the
\* four optional ones absent, empty or set.
RequiredProps ==
    [appName |-> Str("test-app"), envName |-> Str("dev"), assetPath |-> Str("../dist")]

OptionalPropValues(k) ==
    CASE k = "domainName"     -> {Undefined, Str(""), Str("app.example.com")}
      [] k = "certificateArn" ->
            {Undefined, Str(""), Str("arn:aws:acm:us-east-1:123456789012:certificate/test-cert")}
      [] k = "hostedZoneId"   -> {Undefined, Str(""), Str("Z1234567890ABC")}
      [] k = "hostedZoneName" -> {Undefined, Str(""), Str("example.com")}

OptionalPropKeys == {"domainName", "certificateArn", "hostedZoneId", "hostedZoneName"}

\* A props object: a key given undefined is a key left out.
PropsOf(required, optional) ==
    [k \in DOMAIN required \cup {j \in DOMAIN optional : optional[j] # Undefined} |->
        IF k \in DOMAIN required THEN required[k] ELSE optional[k]]

StackPropsSet ==
    {PropsOf(RequiredProps, o) :
        o \in [OptionalPropKeys -> UNION {OptionalPropValues(k) : k \in OptionalPropKeys}]
              \cap {f \in [OptionalPropKeys ->
                              UNION {OptionalPropValues(k) : k \in OptionalPropKeys}] :
                        \A k \in OptionalPropKeys : f[k] \in OptionalPropValues(k)}}

----------------------------------------------------------------------------
(* src/common/utils/config.ts *)

KindField(key, kind) ==
    [key |-> key, kind |-> kind, optional |-> FALSE, hasDefault |-> FALSE]

appConfigSchema ==
    << KindField("VITE_BUILD_DATE", "date"),
       KindField("VITE_BUILD_TIME", "time"),
       KindField("VITE_BUILD_TS", "datetime"),
       StringField("VITE_BUILD_COMMIT_SHA"),
       StringField("VITE_BUILD_ENV_CODE"),
       StringField("VITE_BUILD_WORKFLOW_NAME"),
       KindField("VITE_BUILD_WORKFLOW_RUN_NUMBER", "int"),
       KindField("VITE_BUILD_WORKFLOW_RUN_ATTEMPT", "int"),
       KindField("VITE_BASE_URL_API", "url"),
       [key |-> "VITE_TOAST_AUTO_DISMISS_MILLIS", kind |-> "int", optional |-> FALSE,
        hasDefault |-> TRUE, default |-> Num(50000)] >>

AppErrorPrefix == "Invalid configuration. Details: "

\* parseConfig(): parse import.meta.env; a ZodError is logged and becomes one
\* Error whose message lists every issue.
parseConfig(env) ==
    LET parsed == ZodObject(appConfigSchema, env)
    IN  IF parsed.success
        THEN Returned(env, parsed.data)
        ELSE Thrown(env, ErrorMessage(AppErrorPrefix, "; ", parsed.issues))

\* A function from a set of keys, written as a set of <<key, value>> pairs.
ObjectOf(pairs) ==
    [k \in {p[1] : p \in pairs} |-> (CHOOSE p \in pairs : p[1] = k)[2]]

\* "should validate environment object with all valid values"
AppEnvValid ==
    ObjectOf({ <<"VITE_BUILD_DATE", Str("2026-02-11")>>,
               <<"VITE_BUILD_TIME", Str("14:30:00")>>,
               <<"VITE_BUILD_TS", Str("2026-02-11T14:30:00Z")>>,
               <<"VITE_BUILD_COMMIT_SHA", Str("abc123def456")>>,
               <<"VITE_BUILD_ENV_CODE", Str("dev")>>,
               <<"VITE_BUILD_WORKFLOW_NAME", Str("CI/CD Pipeline")>>,
               <<"VITE_BUILD_WORKFLOW_RUN_NUMBER", Num(420)>>,
               <<"VITE_BUILD_WORKFLOW_RUN_ATTEMPT", Num(10)>>,
               <<"VITE_BASE_URL_API", Str("https://api.example.com")>>,
               <<"VITE_TOAST_AUTO_DISMISS_MILLIS", Num(50000)>> })

\* "should coerce string numbers to integers": what a .env file supplies,
\* every value a string.
AppEnvStrings ==
    ObjectOf({ <<"VITE_BUILD_DATE", Str("2026-02-11")>>,
               <<"VITE_BUILD_TIME", Str("14:30:00")>>,
               <<"VITE_BUILD_TS", Str("2026-02-11T14:30:00Z")>>,
               <<"VITE_BUILD_COMMIT_SHA", Str("abc123def456")>>,
               <<"VITE_BUILD_ENV_CODE", Str("dev")>>,
               <<"VITE_BUILD_WORKFLOW_NAME", Str("CI/CD Pipeline")>>,
               <<"VITE_BUILD_WORKFLOW_RUN_NUMBER", Str("99")>>,
               <<"VITE_BUILD_WORKFLOW_RUN_ATTEMPT", Str("3")>>,
               <<"VITE_BASE_URL_API", Str("https://api.example.com")>>,
               <<"VITE_TOAST_AUTO_DISMISS_MILLIS", Str("3000")>> })

\* "should fail validation when required environment variables are missing"
AppEnvIncomplete == ObjectOf({ <<"VITE_BUILD_DATE", Str("2026-02-11")>> })

\* "should provide validation errors for invalid inputs"
AppEnvInvalid ==
    ObjectOf({ <<"VITE_BUILD_DATE", Str("invalid")>>,
               <<"VITE_BUILD_TIME", Str("invalid")>>,
               <<"VITE_BUILD_TS", Str("invalid")>>,
               <<"VITE_BUILD_COMMIT_SHA", Str("")>>,
               <<"VITE_BUILD_ENV_CODE", Str("")>>,
               <<"VITE_BUILD_WORKFLOW_NAME", Str("")>>,
               <<"VITE_BUILD_WORKFLOW_RUN_NUMBER", Str("not-a-number")>>,
               <<"VITE_BUILD_WORKFLOW_RUN_ATTEMPT", Str("not-a-number")>>,
               <<"VITE_BASE_URL_API", Str("invalid-url")>>,
               <<"VITE_TOAST_AUTO_DISMISS_MILLIS", Str("not-a-number")>> })

AppInitialEnvs == {AppEnvValid, AppEnvStrings, AppEnvIncomplete, AppEnvInvalid}

AppSchemaKeys == {appConfigSchema[i].key : i \in 1..Len(appConfigSchema)}

\* MODE is a key Vite defines and the schema does not declare.
AppEnvKeys == AppSchemaKeys \cup {"MODE"}

\* The values a run may give a key of import.meta.env.
AppEnvValues(k) ==
    CASE k = "VITE_BUILD_DATE" ->
            {Str("1970-01-01"), Str("2024-02-29"), Str("2026-02-30"), Str("invalid-date")}
      [] k = "VITE_BUILD_TIME" ->
            {Str("14:30"), Str("25:00:00"), Str("14:30:00+0000"), Str("invalid-time")}
      [] k = "VITE_BUILD_TS" ->
            {Str("2026-02-10T14:30:00+0000"), Str("2026-02-11"), Str("invalid-datetime")}
      [] k = "VITE_BUILD_COMMIT_SHA"    -> {Str("0123abc"), Str("")}
      [] k = "VITE_BUILD_ENV_CODE"      -> {Str("qa"), Str("")}
      [] k = "VITE_BUILD_WORKFLOW_NAME" -> {Str("Build"), Str("")}
      [] k = "VITE_BUILD_WORKFLOW_RUN_NUMBER" ->
            {Num(990), Num(0), Num(-10), Num(15), Str("99"), Str("not-a-number")}
      [] k = "VITE_BUILD_WORKFLOW_RUN_ATTEMPT" ->
            {Num(30), Num(0), Num(-50), Num(25), Str("0")}
      [] k = "VITE_BASE_URL_API" ->
            {Str("http://localhost:3000"), Str("not-a-valid-url"), Str("https://")}
      [] k = "VITE_TOAST_AUTO_DISMISS_MILLIS" ->
            {Num(30000), Num(0), Num(-10000), Num(5), Str("3000")}
      [] k = "MODE" -> {Str("test")}

----------------------------------------------------------------------------
(* The infrastructure process *)

appVars == <<metaEnv, appConfig, request>>

stackVars == <<pc, stackProps, frontendStack, cdnStack>>

infraVars == <<processEnv, config, earlier, tags, awsEnv>>

\* node app.ts, or a test of config.ts: process.env is what the shell and
\* the .env file made it; nothing has been called.
Init ==
    /\ program = "infra"
    /\ processEnv \in InitialEnvs
    /\ envOps = 0
    /\ config = NotCalled
    /\ earlier = "none"
    /\ tags = NotCalled
    /\ awsEnv = NotCalled
    /\ metaEnv = ObjectOf({})
    /\ appConfig = NotCalled
    /\ request = NotCalled
    /\ pc = "idle"
    /\ stackProps = Undefined
    /\ frontendStack = NotCalled
    /\ cdnStack = NotCalled

\* process.env.K = v
SetEnv ==
    /\ program = "infra"
    /\ envOps < MaxEnvOps
    /\ \E k \in EnvKeys : \E v \in EnvValues(k) :
          processEnv' = Assign(processEnv, k, Str(v))
    /\ envOps' = envOps + 1
    /\ UNCHANGED <<program, config, earlier, tags, awsEnv, appVars, stackVars>>

\* delete process.env.K
DeleteEnv ==
    /\ program = "infra"
    /\ envOps < MaxEnvOps
    /\ \E k \in DOMAIN processEnv : processEnv' = Delete(processEnv, k)
    /\ envOps' = envOps + 1
    /\ UNCHANGED <<program, config, earlier, tags, awsEnv, appVars, stackVars>>

\* const config = getConfig(): the first statement of a caller's block (the
\* entry point, a test case), whose tags and env are not yet declared.
GetConfig ==
    /\ program = "infra"
    /\ config' = getConfig(processEnv)
    /\ earlier' = config.kind
    /\ tags' = NotCalled
    /\ awsEnv' = NotCalled
    /\ UNCHANGED <<program, processEnv, envOps, appVars, stackVars>>

\* const tags = getTags(config), with the config getConfig returned
GetTags ==
    /\ program = "infra"
    /\ config.kind = "returned"
    /\ tags' = Returned(config.value, getTags(config.value))
    /\ UNCHANGED <<program, processEnv, envOps, config, earlier, awsEnv, appVars, stackVars>>

\* const env = getEnvironmentConfig(config), with the config getConfig returned
GetEnvironmentConfig ==
    /\ program = "infra"
    /\ config.kind = "returned"
    /\ awsEnv' = Returned([config |-> config.value,
                           defaultAccount |-> Get(processEnv, "CDK_DEFAULT_ACCOUNT"),
                           defaultRegion |-> Get(processEnv, "CDK_DEFAULT_REGION")],
                          getEnvironmentConfig(config.value, processEnv))
    /\ UNCHANGED <<program, processEnv, envOps, config, earlier, tags, appVars, stackVars>>

Next ==
    \/ SetEnv
    \/ DeleteEnv
    \/ GetConfig
    \/ GetTags
    \/ GetEnvironmentConfig

Spec == Init /\ [][Next]_vars

----------------------------------------------------------------------------
(* The application *)

\* The bundle starts: import.meta.env is what the build made it; the config
\* module has not been imported.
AppInit ==
    /\ program = "app"
    /\ metaEnv \in AppInitialEnvs
    /\ envOps = 0
    /\ appConfig = NotCalled
    /\ request = NotCalled
    /\ pc = "idle"
    /\ stackProps = Undefined
    /\ frontendStack = NotCalled
    /\ cdnStack = NotCalled
    /\ processEnv = EnvOf({})
    /\ config = NotCalled
    /\ earlier = "none"
    /\ tags = NotCalled
    /\ awsEnv = NotCalled

\* import.meta.env.K = v (a .env line, a define, a stubbed variable)
AppSetEnv ==
    /\ program = "app"
    /\ envOps < MaxEnvOps
    /\ \E k \in AppEnvKeys : \E v \in AppEnvValues(k) :
          metaEnv' = Assign(metaEnv, k, v)
    /\ envOps' = envOps + 1
    /\ UNCHANGED <<program, appConfig, request, infraVars, stackVars>>

\* K is left out of import.meta.env
AppDeleteEnv ==
    /\ program = "app"
    /\ envOps < MaxEnvOps
    /\ \E k \in DOMAIN metaEnv : metaEnv' = Delete(metaEnv, k)
    /\ envOps' = envOps + 1
    /\ UNCHANGED <<program, appConfig, request, infraVars, stackVars>>

\* Mutant of LoadConfigModule: the environment is parsed at every access.
LoadConfigModuleAgain ==
    /\ program = "app"
    /\ appConfig' = parseConfig(metaEnv)
    /\ UNCHANGED <<program, metaEnv, envOps, request, infraVars, stackVars>>

\* export const config = parseConfig(): runs when the module is first
\* imported, and the module is evaluated once.
LoadConfigModule ==
    /\ program = "app"
    /\ appConfig = NotCalled
    /\ appConfig' = parseConfig(metaEnv)
    /\ UNCHANGED <<program, metaEnv, envOps, request, infraVars, stackVars>>

\* The task identifiers a page asks for.
TaskIds == {1, 2}

\* useGetTask's getTask(): the request URL is built from the exported config.
\* A module that imports a config module whose evaluation threw does not
\* load, so the hook exists only when parseConfig returned.
UseGetTask ==
    /\ program = "app"
    /\ appConfig.kind = "returned"
    /\ \E taskId \in TaskIds :
          request' = Returned(appConfig.value,
                              <<Get(appConfig.value, "VITE_BASE_URL_API"), "/todos/", taskId>>)
    /\ UNCHANGED <<program, metaEnv, envOps, appConfig, infraVars, stackVars>>

AppNext ==
    \/ AppSetEnv
    \/ AppDeleteEnv
    \/ LoadConfigModule
    \/ UseGetTask

AppSpec == AppInit /\ [][AppNext]_vars

----------------------------------------------------------------------------
(* Either program *)

SystemInit == Init \/ AppInit

SystemNext == Next \/ AppNext

SystemSpec == SystemInit /\ [][SystemNext]_vars

----------------------------------------------------------------------------
(* The stack constructors, on the props of their tests *)

StackInit ==
    /\ program = "stacks"
    /\ stackProps \in StackPropsSet
    /\ frontendStack = NotCalled
    /\ cdnStack = NotCalled
    /\ pc = "idle"
    /\ processEnv = EnvOf({})
    /\ envOps = 0
    /\ config = NotCalled
    /\ earlier = "none"
    /\ tags = NotCalled
    /\ awsEnv = NotCalled
    /\ metaEnv = ObjectOf({})
    /\ appConfig = NotCalled
    /\ request = NotCalled

\* new CdnStack(app, id, props)
NewCdnStack ==
    /\ program = "stacks"
    /\ cdnStack' = Returned(stackProps, CdnStack(stackProps))
    /\ UNCHANGED <<program, envOps, pc, stackProps, frontendStack, infraVars, appVars>>

\* new FrontendStack(app, id, props)
NewFrontendStack ==
    /\ program = "stacks"
    /\ frontendStack' = Returned(stackProps, FrontendStack(stackProps))
    /\ UNCHANGED <<program, envOps, pc, stackProps, cdnStack, infraVars, appVars>>

StackNext ==
    \/ NewCdnStack
    \/ NewFrontendStack

StackSpec == StackInit /\ [][StackNext]_vars

----------------------------------------------------------------------------
(* The entry point, app.ts, run from its first statement to its last *)

\* The process is started: its environment is what the shell exported, and
\* the first statement is about to run.
EntryInit ==
    /\ program = "infra"
    /\ processEnv \in InitialEnvs
    /\ envOps = 0
    /\ config = NotCalled
    /\ earlier = "none"
    /\ tags = NotCalled
    /\ awsEnv = NotCalled
    /\ metaEnv = ObjectOf({})
    /\ appConfig = NotCalled
    /\ request = NotCalled
    /\ pc = "config"
    /\ stackProps = Undefined
    /\ frontendStack = NotCalled
    /\ cdnStack = NotCalled

\* dotenv/config and the shell set a variable before the first statement.
EntrySetEnv ==
    /\ pc = "config"
    /\ config = NotCalled
    /\ SetEnv

\* The variables of the schema that have a default.
DefaultedKeys == {configSchema[i].key : i \in {j \in 1..Len(configSchema) : configSchema[j].hasDefault}}

\* A line `K=` of .env: the variable is there, with the empty string.
EntrySetEnvBlank ==
    /\ pc = "config"
    /\ config = NotCalled
    /\ envOps < MaxEnvOps
    /\ \E k \in DefaultedKeys : processEnv' = Assign(processEnv, k, Str(""))
    /\ envOps' = envOps + 1
    /\ UNCHANGED <<program, config, earlier, tags, awsEnv, appVars, stackVars>>

\* A variable is left out of .env and the shell before the first statement.
EntryDeleteEnv ==
    /\ pc = "config"
    /\ config = NotCalled
    /\ DeleteEnv

\* const config = getConfig(); an error it throws is not caught and ends the
\* process.
EntryGetConfig ==
    /\ pc = "config"
    /\ config' = getConfig(processEnv)
    /\ pc' = IF config'.kind = "returned" THEN "tags" ELSE "exit"
    /\ UNCHANGED <<program, processEnv, envOps, earlier, tags, awsEnv, appVars,
                   stackProps, frontendStack, cdnStack>>

\* const tags = getTags(config);
EntryGetTags ==
    /\ pc = "tags"
    /\ tags' = Returned(config.value, getTags(config.value))
    /\ pc' = "env"
    /\ UNCHANGED <<program, processEnv, envOps, config, earlier, awsEnv, appVars,
                   stackProps, frontendStack, cdnStack>>

\* const env = getEnvironmentConfig(config);
EntryGetEnvironmentConfig ==
    /\ pc = "env"
    /\ awsEnv' = Returned([config |-> config.value,
                           defaultAccount |-> Get(processEnv, "CDK_DEFAULT_ACCOUNT"),
                           defaultRegion |-> Get(processEnv, "CDK_DEFAULT_REGION")],
                          getEnvironmentConfig(config.value, processEnv))
    /\ pc' = "stack"
    /\ UNCHANGED <<program, processEnv, envOps, config, earlier, tags, appVars,
                   stackProps, frontendStack, cdnStack>>

\* The props object app.ts hands to FrontendStack.
FrontendStackProps(cfg, env, tagSet) ==
    PropsOf([stackName |-> [t |-> "template",
                            parts |-> <<Get(cfg, "CDK_APP_NAME"), Str("-frontend-"),
                                        Get(cfg, "CDK_ENV")>>],
             tags |-> tagSet,
             appName |-> Get(cfg, "CDK_APP_NAME"),
             envName |-> Get(cfg, "CDK_ENV"),
             assetPath |-> Get(cfg, "CDK_ASSET_PATH")],
            [env |-> env,
             domainName |-> Get(cfg, "CDK_DOMAIN_NAME"),
             certificateArn |-> Get(cfg, "CDK_CERTIFICATE_ARN"),
             hostedZoneId |-> Get(cfg, "CDK_HOSTED_ZONE_ID"),
             hostedZoneName |-> Get(cfg, "CDK_HOSTED_ZONE_NAME")])

\* const app = new cdk.App(); new FrontendStack(app, id, {...});
EntryNewFrontendStack ==
    /\ pc = "stack"
    /\ stackProps' = FrontendStackProps(config.value, awsEnv.value, tags.value)
    /\ frontendStack' = Returned(stackProps', FrontendStack(stackProps'))
    /\ pc' = "done"
    /\ UNCHANGED <<program, processEnv, envOps, config, earlier, tags, awsEnv, appVars,
                   cdnStack>>

EntryNext ==
    \/ EntrySetEnv
    \/ EntrySetEnvBlank
    \/ EntryDeleteEnv
    \/ EntryGetConfig
    \/ EntryGetTags
    \/ EntryGetEnvironmentConfig
    \/ EntryNewFrontendStack

EntrySpec == EntryInit /\ [][EntryNext]_vars

----------------------------------------------------------------------------
(* getConfig and getEnvironmentConfig, from the environments of the
   getEnvironmentConfig tests *)

ResolverInit ==
    /\ program = "infra"
    /\ processEnv \in ResolverEnvs
    /\ envOps = 0
    /\ config = NotCalled
    /\ earlier = "none"
    /\ tags = NotCalled
    /\ awsEnv = NotCalled
    /\ metaEnv = ObjectOf({})
    /\ appConfig = NotCalled
    /\ request = NotCalled
    /\ pc = "idle"
    /\ stackProps = Undefined
    /\ frontendStack = NotCalled
    /\ cdnStack = NotCalled

\* process.env.K = v, for one of the four account and region variables
ResolverSetEnv ==
    /\ program = "infra"
    /\ envOps < MaxEnvOps
    /\ \E k \in ResolverKeys : \E v \in EnvValues(k) :
          processEnv' = Assign(processEnv, k, Str(v))
    /\ envOps' = envOps + 1
    /\ UNCHANGED <<program, config, earlier, tags, awsEnv, appVars, stackVars>>

ResolverNext ==
    \/ ResolverSetEnv
    \/ DeleteEnv
    \/ GetConfig
    \/ GetEnvironmentConfig

ResolverSpec == ResolverInit /\ [][ResolverNext]_vars

----------------------------------------------------------------------------
(* Claims about getEnvironmentConfig and getTags *)

\* A value that `||` passes over: undefined or the empty string.
IsBlank(x) == x = Undefined \/ x = Str("")

NonEmptyString(x) == IsString(x) /\ x.v # ""

ExplicitAccount == Get(awsEnv.input.config, "CDK_ACCOUNT")

ExplicitRegion == Get(awsEnv.input.config, "CDK_REGION")

\* C1: the result of getEnvironmentConfig is either undefined or a pair whose
\* account and region are both non-empty strings, and it is undefined
\* whenever the account, or the region, is blank in the config and in
\* CDK_DEFAULT_* alike.
C1_AllOrNothing ==
    awsEnv.kind = "returned" =>
        LET r == awsEnv.value
            noAccount == IsBlank(ExplicitAccount) /\ IsBlank(awsEnv.input.defaultAccount)
            noRegion  == IsBlank(ExplicitRegion) /\ IsBlank(awsEnv.input.defaultRegion)
        IN  /\ \/ r = Undefined
               \/ /\ DOMAIN r = {"account", "region"}
                  /\ NonEmptyString(r.account)
                  /\ NonEmptyString(r.region)
            /\ (noAccount \/ noRegion) => r = Undefined

\* getEnvironmentConfig was called with an account to be had (from
\* CDK_DEFAULT_ACCOUNT) and no region anywhere, and returned undefined.
C1_Witness ==
    /\ awsEnv.kind = "returned"
    /\ NonEmptyString(awsEnv.input.defaultAccount)
    /\ IsBlank(ExplicitRegion) /\ IsBlank(awsEnv.input.defaultRegion)
    /\ awsEnv.value = Undefined

\* C2: when the config's CDK_ACCOUNT and CDK_REGION are both non-empty, the
\* result is exactly that pair, whatever CDK_DEFAULT_ACCOUNT and
\* CDK_DEFAULT_REGION hold.
C2_ExplicitWins ==
    (/\ awsEnv.kind = "returned"
     /\ NonEmptyString(ExplicitAccount)
     /\ NonEmptyString(ExplicitRegion))
        => awsEnv.value = [account |-> ExplicitAccount, region |-> ExplicitRegion]

\* Both explicit values and both defaults were set, each default different
\* from the explicit value, and the explicit pair came back.
C2_Witness ==
    /\ awsEnv.kind = "returned"
    /\ NonEmptyString(ExplicitAccount) /\ NonEmptyString(ExplicitRegion)
    /\ NonEmptyString(awsEnv.input.defaultAccount)
    /\ NonEmptyString(awsEnv.input.defaultRegion)
    /\ awsEnv.input.defaultAccount # ExplicitAccount
    /\ awsEnv.input.defaultRegion # ExplicitRegion
    /\ awsEnv.value = [account |-> ExplicitAccount, region |-> ExplicitRegion]

\* C3: when the config has neither CDK_ACCOUNT nor CDK_REGION and both
\* CDK_DEFAULT_ACCOUNT and CDK_DEFAULT_REGION are non-empty, the result is
\* exactly the pair of the defaults.
C3_Fallback ==
    (/\ awsEnv.kind = "returned"
     /\ "CDK_ACCOUNT" \notin DOMAIN awsEnv.input.config
     /\ "CDK_REGION" \notin DOMAIN awsEnv.input.config
     /\ NonEmptyString(awsEnv.input.defaultAccount)
     /\ NonEmptyString(awsEnv.input.defaultRegion))
        => awsEnv.value = [account |-> awsEnv.input.defaultAccount,
                           region |-> awsEnv.input.defaultRegion]

\* The config had no explicit account or region, both defaults were set, and
\* the pair of defaults came back.
C3_Witness ==
    /\ awsEnv.kind = "returned"
    /\ "CDK_ACCOUNT" \notin DOMAIN awsEnv.input.config
    /\ "CDK_REGION" \notin DOMAIN awsEnv.input.config
    /\ awsEnv.value = [account |-> Str("111111111111"), region |-> Str("eu-west-1")]

TagSources == {"CDK_APP_NAME", "CDK_ENV", "CDK_OU", "CDK_OWNER"}

\* C10: every validated config has the four fields getTags reads, and
\* getTags returns exactly the keys App, Env, OU, Owner holding the config's
\* CDK_APP_NAME, CDK_ENV, CDK_OU and CDK_OWNER unchanged.
C10_TagsVerbatim ==
    /\ config.kind = "returned" =>
          \A k \in TagSources : k \in DOMAIN config.value /\ IsString(config.value[k])
    /\ tags.kind = "returned" =>
          /\ DOMAIN tags.value = {"App", "Env", "OU", "Owner"}
          /\ tags.value.App = tags.input["CDK_APP_NAME"]
          /\ tags.value.Env = tags.input["CDK_ENV"]
          /\ tags.value.OU = tags.input["CDK_OU"]
          /\ tags.value.Owner = tags.input["CDK_OWNER"]

\* getTags was given a config whose OU is the empty string and whose app name
\* is not the default, and returned both as they were.
C10_Witness ==
    /\ tags.kind = "returned"
    /\ tags.input["CDK_OU"] = Str("")
    /\ tags.value.OU = Str("")
    /\ tags.value.App = Str("my-app")

----------------------------------------------------------------------------
(* Claims about parsing *)

\* The constraint a field's kind puts on a value, stated on the value.
Satisfies(f, v) ==
    CASE f.kind = "string"   -> IsString(v)
      [] f.kind = "enum"     -> IsString(v) /\ v.v \in f.values
      [] f.kind = "date"     -> IsString(v) /\ IsoDateChars(Chars(v.v))
      [] f.kind = "time"     -> IsString(v) /\ IsoTimeChars(Chars(v.v))
      [] f.kind = "datetime" -> IsString(v) /\ IsoDatetimeChars(Chars(v.v))
      [] f.kind = "url"      -> IsString(v) /\ UrlChars(Chars(v.v))
      [] f.kind = "int"      -> IsNumber(v) /\ v.tenths % 10 = 0 /\ v.tenths >= 0

\* The raw value under a field's key is acceptable: it meets the constraint,
\* or it is absent from a field that is optional or has a default.
RawValid(f, input) ==
    IF f.key \in DOMAIN input THEN Satisfies(f, input[f.key])
    ELSE f.optional \/ f.hasDefault

Fields(shape) == {shape[i] : i \in 1..Len(shape)}

\* The fields of the schema that the raw input violates.
Violated(shape, input) == {f \in Fields(shape) : ~RawValid(f, input)}

\* The keys the entries of an error message name.
EntryPaths(message) == {message.entries[j].path : j \in 1..Len(message.entries)}

\* An outcome is all or nothing: a record exactly when no field is violated,
\* every field of the record meeting its constraint (an optional field may be
\* missing from it); otherwise an error and no record.
AllOrNothing(shape, outcome) ==
    outcome.kind # "none" =>
        /\ outcome.kind = "returned" <=> Violated(shape, outcome.input) = {}
        /\ outcome.kind = "thrown" <=> Violated(shape, outcome.input) # {}
        /\ outcome.kind = "returned" =>
              /\ "message" \notin DOMAIN outcome
              /\ DOMAIN outcome.value \subseteq {f.key : f \in Fields(shape)}
              /\ \A f \in Fields(shape) :
                    IF f.key \in DOMAIN outcome.value
                    THEN Satisfies(f, outcome.value[f.key])
                    ELSE f.optional
        /\ outcome.kind = "thrown" => "value" \notin DOMAIN outcome

AllReported(shape, outcome) ==
    outcome.kind = "thrown" =>
        \A f \in Violated(shape, outcome.input) : f.key \in EntryPaths(outcome.message)

\* C5: when a raw input violates k fields, the single error raised names
\* every one of the k fields, not only the first.
C5_AllFailuresReported ==
    /\ AllReported(configSchema, config)
    /\ AllReported(appConfigSchema, appConfig)

\* parseConfig threw on an input violating at least three fields, the last
\* field of the schema among them, and the message names them all.
C5_Witness ==
    /\ appConfig.kind = "thrown"
    /\ Cardinality(Violated(appConfigSchema, appConfig.input)) >= 3
    /\ "VITE_TOAST_AUTO_DISMISS_MILLIS" \in EntryPaths(appConfig.message)
    /\ "VITE_BUILD_DATE" \in EntryPaths(appConfig.message)

AppRequiredKeys ==
    {"VITE_BUILD_DATE", "VITE_BUILD_TIME", "VITE_BUILD_TS", "VITE_BUILD_COMMIT_SHA",
     "VITE_BUILD_ENV_CODE", "VITE_BUILD_WORKFLOW_NAME", "VITE_BUILD_WORKFLOW_RUN_NUMBER",
     "VITE_BUILD_WORKFLOW_RUN_ATTEMPT", "VITE_BASE_URL_API"}

\* A call made without the key failed with an entry for the key.
MissingReported(outcome, key) ==
    (outcome.kind # "none" /\ key \notin DOMAIN outcome.input)
        => (outcome.kind = "thrown" /\ key \in EntryPaths(outcome.message))

C7_EnvEnum ==
    (config.kind # "none" /\ "CDK_ENV" \in DOMAIN config.input) =>
        IF config.input["CDK_ENV"] \in {Str("dev"), Str("qa"), Str("prd")}
        THEN config.kind = "returned" /\ config.value["CDK_ENV"] = config.input["CDK_ENV"]
        ELSE config.kind = "thrown"

\* getConfig threw for CDK_ENV in another casing.
C7_Witness ==
    /\ config.kind = "thrown"
    /\ "CDK_ENV" \in DOMAIN config.input
    /\ config.input["CDK_ENV"] = Str("DEV")

\* C8: with a valid CDK_ENV and no other variable of the schema set,
\* getConfig returns the five defaults and CDK_ENV, and nothing else.
C8_Defaults ==
    (/\ config.kind # "none"
     /\ DOMAIN config.input \cap SchemaKeys = {"CDK_ENV"}
     /\ config.input["CDK_ENV"] \in {Str("dev"), Str("qa"), Str("prd")})
        => /\ config.kind = "returned"
           /\ config.value =
                [CDK_APP_NAME |-> Str("react-starter"),
                 CDK_ENV |-> config.input["CDK_ENV"],
                 CDK_OU |-> Str("unknown"),
                 CDK_OWNER |-> Str("unknown"),
                 CDK_ASSET_PATH |-> Str("../dist"),
                 CDK_STORYBOOK_ASSET_PATH |-> Str("../storybook-static")]

\* getConfig ran with CDK_ENV = qa, CDK_DEFAULT_ACCOUNT set and no other
\* CDK_ variable, and returned a record without CDK_ACCOUNT.
C8_Witness ==
    /\ config.kind = "returned"
    /\ DOMAIN config.input = {"CDK_ENV", "CDK_DEFAULT_ACCOUNT"}
    /\ config.input["CDK_ENV"] = Str("qa")
    /\ "CDK_ACCOUNT" \notin DOMAIN config.value
    /\ config.value["CDK_OU"] = Str("unknown")

\* What the specification takes a well-typed raw value to be: an integer
\* field also accepts the base-10 string of a non-negative integer.
WellTyped(f, input) ==
    IF f.key \notin DOMAIN input THEN f.optional \/ f.hasDefault
    ELSE IF f.kind = "int" /\ IsString(input[f.key])
         THEN Chars(input[f.key].v) # <<>> /\ AllDigits(Chars(input[f.key].v))
         ELSE Satisfies(f, input[f.key])

\* The raw value coerced to the field's type, or the default when absent.
Coerced(f, input) ==
    IF f.key \notin DOMAIN input THEN (IF f.hasDefault THEN f.default ELSE Undefined)
    ELSE IF f.kind = "int" /\ IsString(input[f.key])
         THEN Num(10 * Decimal(Chars(input[f.key].v)))
         ELSE input[f.key]

CoercedValues(shape, outcome) ==
    (outcome.kind # "none" /\ \A f \in Fields(shape) : WellTyped(f, outcome.input))
        => /\ outcome.kind = "returned"
           /\ \A f \in Fields(shape) : Get(outcome.value, f.key) = Coerced(f, outcome.input)

\* C9: for every raw input whose fields are all present (or defaulted) and
\* well-typed, parsing succeeds and each field of the record is the raw value
\* coerced to the field's type, or the schema default when the key is absent.
C9_CoercedValues ==
    /\ CoercedValues(configSchema, config)
    /\ CoercedValues(appConfigSchema, appConfig)

\* The infrastructure half of C9, which the code meets.
C9_InfraValues == CoercedValues(configSchema, config)

\* The application half of C9 for raw inputs whose integer fields are already
\* numbers, which the code meets.
C9_AppNumericValues ==
    (\A f \in Fields(appConfigSchema) :
        (f.kind = "int" /\ appConfig.kind # "none" /\ f.key \in DOMAIN appConfig.input)
            => IsNumber(appConfig.input[f.key]))
        => CoercedValues(appConfigSchema, appConfig)

----------------------------------------------------------------------------
(* Claims about the error message *)

\* The keys of the violated fields, in the order of the schema.
RECURSIVE ViolatedKeys(_, _, _)
ViolatedKeys(shape, input, i) ==
    IF i > Len(shape) THEN <<>>
    ELSE (IF RawValid(shape[i], input) THEN <<>> ELSE <<shape[i].key>>)
         \o ViolatedKeys(shape, input, i + 1)

\* The message of a failure is the given prefix, then one "<field>: <message>"
\* entry per violated field in schema order, joined by the given separator.
MessageShape(shape, outcome, prefix, sep) ==
    outcome.kind = "thrown" =>
        LET m  == outcome.message
            vk == ViolatedKeys(shape, outcome.input, 1)
        IN  /\ m.prefix = prefix
            /\ m.sep = sep
            /\ Len(m.entries) = Len(vk)
            /\ \A j \in 1..Len(vk) :
                  /\ m.entries[j].path = vk[j]
                  /\ m.entries[j].message # <<>>

\* C11 as stated: every failure message of getConfig and of parseConfig is
\* the literal prefix "configuration validation failed: " followed by the
\* comma- or semicolon-joined entries.
C11_LiteralPrefix ==
    /\ MessageShape(configSchema, config, "configuration validation failed: ", config.message.sep)
    /\ MessageShape(appConfigSchema, appConfig, "configuration validation failed: ",
                    appConfig.message.sep)
    /\ config.kind = "thrown" => config.message.sep \in {",", ", ", ";", "; "}
    /\ appConfig.kind = "thrown" => appConfig.message.sep \in {",", ", ", ";", "; "}

\* C11, amended: a failure message of getConfig is the prefix
\* "CDK configuration validation failed: " followed by the entries joined by
\* ", "; a failure message of parseConfig is the prefix
\* "Invalid configuration. Details: " followed by the entries joined by "; ";
\* in both there is one "<field>: <message>" entry per reported issue.
C11_MessageShape ==
    /\ MessageShape(configSchema, config, "CDK configuration validation failed: ", ", ")
    /\ MessageShape(appConfigSchema, appConfig, "Invalid configuration. Details: ", "; ")

\* parseConfig threw on an input violating exactly two fields, and its
\* message has the application's prefix and two entries.
C11_Witness ==
    /\ appConfig.kind = "thrown"
    /\ Len(appConfig.message.entries) = 2
    /\ appConfig.message.entries[1].path # appConfig.message.entries[2].path
    /\ appConfig.message.prefix = "Invalid configuration. Details: "

----------------------------------------------------------------------------
(* Claims about repeated calls *)

\* What a parse of env alone gives, stated without the parser: a record of
\* the raw values and defaults when no field is violated, else an error with
\* an entry for each violated field; either way about env as it is.
FreshOutcome(env, outcome) ==
    /\ outcome.kind \in {"returned", "thrown"}
    /\ outcome.input = env
    /\ IF Violated(configSchema, env) = {}
       THEN /\ outcome.kind = "returned"
            /\ DOMAIN outcome.value \subseteq SchemaKeys
            /\ \A f \in Fields(configSchema) :
                  Get(outcome.value, f.key) = Coerced(f, env)
       ELSE /\ outcome.kind = "thrown"
            /\ EntryPaths(outcome.message) = {f.key : f \in Violated(configSchema, env)}

\* C13: whatever calls and changes of process.env came before, the outcome of
\* a getConfig call is that of a fresh parse of process.env as it is at the
\* moment of the call; nothing of an earlier call's record, defaults or
\* failure is in it.
C13_Reentrant ==
    [][(processEnv' = processEnv /\ tags' = NotCalled /\ awsEnv' = NotCalled /\ GetConfig)
          => FreshOutcome(processEnv, config')]_vars

\* A getConfig call failed, process.env was then given a valid CDK_ENV, and
\* the next getConfig call returned a record.
C13_Witness ==
    /\ earlier = "thrown"
    /\ config.kind = "returned"
    /\ config.input = processEnv
    /\ envOps >= 1

----------------------------------------------------------------------------
(* Claims about the application's fields *)

IntKeys ==
    {"VITE_BUILD_WORKFLOW_RUN_NUMBER", "VITE_BUILD_WORKFLOW_RUN_ATTEMPT",
     "VITE_TOAST_AUTO_DISMISS_MILLIS"}

\* The base-10 string of a non-negative integer.
IsIntegerString(x) == IsString(x) /\ Chars(x.v) # <<>> /\ AllDigits(Chars(x.v))

\* The schema's fields other than the one under key k.
OtherFields(k) == {f \in Fields(appConfigSchema) : f.key # k}

\* C14: when the three integer fields are base-10 strings of non-negative
\* integers and every other field is valid, parseConfig returns a record
\* whose integer fields are the integers the strings spell.
C14_IntegerStrings ==
    (/\ appConfig.kind # "none"
     /\ \A k \in IntKeys :
           k \in DOMAIN appConfig.input /\ IsIntegerString(appConfig.input[k])
     /\ \A f \in Fields(appConfigSchema) :
           f.key \notin IntKeys => RawValid(f, appConfig.input))
        => /\ appConfig.kind = "returned"
           /\ \A k \in IntKeys :
                 appConfig.value[k] = Num(10 * Decimal(Chars(appConfig.input[k].v)))

\* The value an integer field's raw form stands for: a number is itself, the
\* base-10 string of a non-negative integer is that integer.
IntegerOf(v) == IF IsIntegerString(v) THEN Num(10 * Decimal(Chars(v.v))) ELSE v

\* C15: for each of the three integer fields, a negative value and a value
\* that is not an integer make parseConfig fail with an entry for the field;
\* the value zero, every other field being valid, is accepted and returned
\* as 0.
C15_ZeroAndNegatives ==
    appConfig.kind # "none" =>
        \A k \in IntKeys \cap DOMAIN appConfig.input :
            LET v == IntegerOf(appConfig.input[k])
                rejected == appConfig.kind = "thrown" /\ k \in EntryPaths(appConfig.message)
            IN  /\ (IsNumber(v) /\ v.tenths < 0) => rejected
                /\ (IsNumber(v) /\ v.tenths % 10 # 0) => rejected
                /\ IsString(v) => rejected
                /\ (v = Num(0) /\ \A f \in OtherFields(k) : RawValid(f, appConfig.input))
                      => (appConfig.kind = "returned" /\ appConfig.value[k] = Num(0))

\* The part of C15 the code meets: the same, for a zero that is already a
\* number.
C15_NonNegativeIntegers ==
    appConfig.kind # "none" =>
        \A k \in IntKeys \cap DOMAIN appConfig.input :
            LET v == appConfig.input[k]
                rejected == appConfig.kind = "thrown" /\ k \in EntryPaths(appConfig.message)
            IN  /\ (IsNumber(v) /\ v.tenths < 0) => rejected
                /\ (IsNumber(v) /\ v.tenths % 10 # 0) => rejected
                /\ (IsString(v) /\ ~IsIntegerString(v)) => rejected
                /\ (v = Num(0) /\ \A f \in OtherFields(k) : RawValid(f, appConfig.input))
                      => (appConfig.kind = "returned" /\ appConfig.value[k] = Num(0))

ToastField ==
    CHOOSE f \in Fields(appConfigSchema) : f.key = "VITE_TOAST_AUTO_DISMISS_MILLIS"

\* C16: when every required field is valid (an integer field in its raw
\* string form included), parseConfig returns a record whose
\* VITE_TOAST_AUTO_DISMISS_MILLIS is 5000 if the key is absent, and is the
\* supplied value if the key is present and valid.
C16_ToastDefaultRaw ==
    (/\ appConfig.kind # "none"
     /\ \A f \in OtherFields("VITE_TOAST_AUTO_DISMISS_MILLIS") : WellTyped(f, appConfig.input))
        => IF "VITE_TOAST_AUTO_DISMISS_MILLIS" \notin DOMAIN appConfig.input
           THEN /\ appConfig.kind = "returned"
                /\ appConfig.value["VITE_TOAST_AUTO_DISMISS_MILLIS"] = Num(50000)
           ELSE WellTyped(ToastField, appConfig.input)
                   => /\ appConfig.kind = "returned"
                      /\ appConfig.value["VITE_TOAST_AUTO_DISMISS_MILLIS"]
                            = Coerced(ToastField, appConfig.input)

\* The part of C16 the code meets: the same, for inputs whose integer fields
\* are already numbers.
C16_ToastDefault ==
    (/\ appConfig.kind # "none"
     /\ \A f \in OtherFields("VITE_TOAST_AUTO_DISMISS_MILLIS") : RawValid(f, appConfig.input))
        => IF "VITE_TOAST_AUTO_DISMISS_MILLIS" \notin DOMAIN appConfig.input
           THEN /\ appConfig.kind = "returned"
                /\ appConfig.value["VITE_TOAST_AUTO_DISMISS_MILLIS"] = Num(50000)
           ELSE Satisfies(ToastField, appConfig.input["VITE_TOAST_AUTO_DISMISS_MILLIS"])
                   => /\ appConfig.kind = "returned"
                      /\ appConfig.value["VITE_TOAST_AUTO_DISMISS_MILLIS"]
                            = appConfig.input["VITE_TOAST_AUTO_DISMISS_MILLIS"]

\* Texts that are not of the kind, whatever grammar decides it.
KnownBad(kind) ==
    CASE kind = "date"     -> {"2026-02-30", "invalid-date", "invalid"}
      [] kind = "time"     -> {"25:00:00", "invalid-time", "invalid"}
      [] kind = "datetime" -> {"2026-02-11", "invalid-datetime", "invalid"}
      [] kind = "url"      -> {"not-a-valid-url", "invalid-url"}

FormatKinds == {"date", "time", "datetime", "url"}

\* C17: when VITE_BUILD_DATE, VITE_BUILD_TIME, VITE_BUILD_TS or
\* VITE_BASE_URL_API is present and is not of its kind, parseConfig throws
\* with an entry for the field, whatever the other fields hold, and returns
\* no record: no value stands in for the bad one.
C17_CoercionFailure ==
    appConfig.kind # "none" =>
        \A f \in Fields(appConfigSchema) :
            (/\ f.kind \in FormatKinds
             /\ f.key \in DOMAIN appConfig.input
             /\ \/ ~Satisfies(f, appConfig.input[f.key])
                \/ /\ IsString(appConfig.input[f.key])
                   /\ appConfig.input[f.key].v \in KnownBad(f.kind))
                => /\ appConfig.kind = "thrown"
                   /\ f.key \in EntryPaths(appConfig.message)
                   /\ "value" \notin DOMAIN appConfig

\* parseConfig threw on an input whose only violated field is a
\* VITE_BUILD_DATE that names no day of the calendar.
C17_Witness ==
    /\ appConfig.kind = "thrown"
    /\ Get(appConfig.input, "VITE_BUILD_DATE") = Str("2026-02-30")
    /\ EntryPaths(appConfig.message) = {"VITE_BUILD_DATE"}
    /\ \A f \in OtherFields("VITE_BUILD_DATE") : RawValid(f, appConfig.input)

----------------------------------------------------------------------------
(* Claims about the entries of a failure *)

\* The messages of the entries a failure has for a key.
EntriesFor(outcome, key) ==
    {outcome.message.entries[j].message :
        j \in {i \in 1..Len(outcome.message.entries) : outcome.message.entries[i].path = key}}

\* A call made without the key failed, and its entries for the key are
\* exactly the given one.
MissingEntry(outcome, key, message) ==
    (outcome.kind # "none" /\ key \notin DOMAIN outcome.input)
        => (outcome.kind = "thrown" /\ EntriesFor(outcome, key) = {message})

\* C18 as stated: the entry recorded for a missing required field is
\* "<key>: required".
C18_RequiredEntry ==
    /\ MissingEntry(config, "CDK_ENV", <<"required">>)
    /\ \A k \in AppRequiredKeys : MissingEntry(appConfig, k, <<"required">>)

\* The type a required application field expects of its raw value.
ExpectedType(key) == IF key \in IntKeys THEN "number" ELSE "string"

\* C18, amended: the entry recorded for a missing required field is
\* "<key>: <message of the field's schema for an undefined value>": for a
\* missing CDK_ENV it is "CDK_ENV: CDK_ENV must be one of: dev, qa, prd", and
\* for a missing required application key it is
\* "<key>: Invalid input: expected <string or number>, received undefined".
C18_MissingEntry ==
    /\ MissingEntry(config, "CDK_ENV",
                    <<"CDK_ENV must be one of: ", "dev", ", ", "qa", ", ", "prd">>)
    /\ \A k \in AppRequiredKeys :
          MissingEntry(appConfig, k,
                       <<"Invalid input: expected ", ExpectedType(k), ", received ", "undefined">>)

\* getConfig threw for an environment without CDK_ENV (and with CDK_REGION
\* set), and the one entry of its message is CDK_ENV's.
C18_Witness ==
    /\ config.kind = "thrown"
    /\ "CDK_ENV" \notin DOMAIN config.input
    /\ "CDK_REGION" \in DOMAIN config.input
    /\ Len(config.message.entries) = 1
    /\ config.message.entries[1].path = "CDK_ENV"

\* The pieces of a message.
Pieces(message) == {message[i] : i \in 1..Len(message)}

\* C19: when CDK_ENV holds a value outside dev, qa, prd, the message getConfig
\* throws has an entry under the field name CDK_ENV whose text names each of
\* dev, qa and prd, and names no other value as allowed.
C19_NamesAllowedSet ==
    (/\ config.kind # "none"
     /\ "CDK_ENV" \in DOMAIN config.input
     /\ config.input["CDK_ENV"] \notin {Str("dev"), Str("qa"), Str("prd")})
        => /\ config.kind = "thrown"
           /\ EntriesFor(config, "CDK_ENV") # {}
           /\ \A m \in EntriesFor(config, "CDK_ENV") :
                 /\ {"dev", "qa", "prd"} \subseteq Pieces(m)
                 /\ Pieces(m) \ {"dev", "qa", "prd"} = {"CDK_ENV must be one of: ", ", "}

\* getConfig threw for CDK_ENV = invalid.
C19_Witness ==
    /\ config.kind = "thrown"
    /\ Get(config.input, "CDK_ENV") = Str("invalid")
    /\ "CDK_ENV" \in EntryPaths(config.message)

----------------------------------------------------------------------------
(* Claims about the exported config *)

\* C20: once the config module has been evaluated its exported outcome never
\* changes, whatever is done to import.meta.env afterwards (the environment
\* is parsed once), and every request useGetTask makes is built from the base
\* URL import.meta.env had at module load.
C20_ParsedOnce ==
    [][/\ appConfig.kind # "none" => appConfig' = appConfig
       /\ request' # request =>
             /\ appConfig.kind = "returned"
             /\ request'.input = appConfig.value
             /\ request'.value[1] = appConfig.input["VITE_BASE_URL_API"]]_vars

\* A request was made after import.meta.env's base URL was changed, and it
\* carries the base URL of module load, not the current one.
C20_Witness ==
    /\ request.kind = "returned"
    /\ Get(metaEnv, "VITE_BASE_URL_API") # Get(appConfig.input, "VITE_BASE_URL_API")
    /\ request.value[1] = appConfig.input["VITE_BASE_URL_API"]
    /\ request.input = appConfig.value

----------------------------------------------------------------------------
(* Claims about the stacks *)

\* The prop is given and is a non-empty string.
GivenNonEmpty(props, k) == k \in DOMAIN props /\ NonEmptyString(props[k])

\* The prop is given, with whatever value.
Given(props, k) == k \in DOMAIN props

HasAlias(stack) == "domainNames" \in DOMAIN stack.distribution

HasRecords(stack) == stack.aRecord # Undefined \/ stack.aaaaRecord # Undefined

HasCustomOutput(stack) ==
    \/ "CustomDomainName" \in DOMAIN stack.outputs
    \/ stack.outputs.ApplicationUrl # <<"https://", DistributionDomainName>>

\* The stacks constructed so far.
Stacks == {o \in {cdnStack, frontendStack} : o.kind = "returned"}

\* C22: CdnStack creates the A record and the AAAA record exactly when
\* domainName, hostedZoneId and hostedZoneName are all given and non-empty,
\* and the one is defined exactly when the other is.
C22_RecordsTogether ==
    cdnStack.kind = "returned" =>
        LET p == cdnStack.input
            s == cdnStack.value
        IN  /\ s.aRecord # Undefined <=>
                  \A k \in {"domainName", "hostedZoneId", "hostedZoneName"} :
                      GivenNonEmpty(p, k)
            /\ s.aRecord # Undefined <=> s.aaaaRecord # Undefined
            /\ s.aRecord # Undefined =>
                  /\ s.aRecord.type = "A" /\ s.aaaaRecord.type = "AAAA"
                  /\ s.aRecord.recordName = p.domainName
                  /\ s.aaaaRecord.recordName = p.domainName

\* A CdnStack with both records and no certificate.
C22_Witness ==
    /\ cdnStack.kind = "returned"
    /\ cdnStack.value.aRecord # Undefined
    /\ cdnStack.value.aaaaRecord # Undefined
    /\ cdnStack.value.certificate = Undefined

\* C23 as stated: in either stack the distribution has the alias exactly
\* when domainName and certificateArn are both given, and the certificate is
\* loaded exactly when certificateArn is given.
C23_AliasWhenGiven ==
    \A o \in Stacks :
        /\ HasAlias(o.value) <=> Given(o.input, "domainName") /\ Given(o.input, "certificateArn")
        /\ o.value.certificate # Undefined <=> Given(o.input, "certificateArn")

\* C23: in either stack the distribution has the alias, with the certificate,
\* exactly when domainName and certificateArn are both given and non-empty;
\* the certificate is loaded exactly when certificateArn is given and
\* non-empty; a domainName without a certificateArn gives no alias.
C23_AliasWhenNonEmpty ==
    \A o \in Stacks :
        /\ HasAlias(o.value) <=>
              GivenNonEmpty(o.input, "domainName") /\ GivenNonEmpty(o.input, "certificateArn")
        /\ HasAlias(o.value) =>
              /\ o.value.distribution.domainNames = <<o.input.domainName>>
              /\ o.value.distribution.certificate = o.value.certificate
        /\ ~HasAlias(o.value) => "certificate" \notin DOMAIN o.value.distribution
        /\ o.value.certificate # Undefined <=> GivenNonEmpty(o.input, "certificateArn")
        /\ o.value.certificate # Undefined =>
              o.value.certificate.certificateArn = o.input.certificateArn
        /\ ~Given(o.input, "certificateArn") => ~HasAlias(o.value)

\* A stack given a domain name and an empty certificate ARN: no certificate
\* and no alias.
C23_Witness ==
    /\ cdnStack.kind = "returned"
    /\ GivenNonEmpty(cdnStack.input, "domainName")
    /\ Get(cdnStack.input, "certificateArn") = Str("")
    /\ cdnStack.value.certificate = Undefined
    /\ ~HasAlias(cdnStack.value)

\* C24 as stated: a stack has an alias, DNS records or a custom-domain output
\* only when all four of domainName, certificateArn, hostedZoneId and
\* hostedZoneName are given.
C24_CompleteGroupOnly ==
    \A o \in Stacks :
        HasAlias(o.value) \/ HasRecords(o.value) \/ HasCustomOutput(o.value) =>
            \A k \in OptionalPropKeys : Given(o.input, k)

\* C24: each custom-domain resource asks for its own part of the group.  The
\* alias is there only when domainName and certificateArn are non-empty, the
\* DNS records only when domainName, hostedZoneId and hostedZoneName are
\* non-empty, CdnStack's custom-domain outputs only with the records and
\* FrontendStack's only with a non-empty domainName; without a non-empty
\* domainName a stack has none of them, and with all four non-empty it has
\* all of them.
C24_OwnPartOfGroup ==
    \A o \in Stacks :
        /\ HasAlias(o.value) =>
              GivenNonEmpty(o.input, "domainName") /\ GivenNonEmpty(o.input, "certificateArn")
        /\ HasRecords(o.value) =>
              \A k \in {"domainName", "hostedZoneId", "hostedZoneName"} :
                  GivenNonEmpty(o.input, k)
        /\ HasCustomOutput(o.value) => GivenNonEmpty(o.input, "domainName")
        /\ o = cdnStack /\ HasCustomOutput(o.value) => HasRecords(o.value)
        /\ ~GivenNonEmpty(o.input, "domainName") =>
              ~(HasAlias(o.value) \/ HasRecords(o.value) \/ HasCustomOutput(o.value))
        /\ (\A k \in OptionalPropKeys : GivenNonEmpty(o.input, k)) =>
              HasAlias(o.value) /\ HasRecords(o.value) /\ HasCustomOutput(o.value)

\* A stack given a certificate and a domain name and no hosted zone: it has
\* the alias.
C24_Witness ==
    /\ cdnStack.kind = "returned"
    /\ DOMAIN cdnStack.input \cap OptionalPropKeys = {"domainName", "certificateArn"}
    /\ HasAlias(cdnStack.value)
    /\ ~HasRecords(cdnStack.value)

\* C30: CdnStack has the CustomDomainName output, and an ApplicationUrl of the
\* custom domain, exactly when it created the A record, and its
\* ApplicationUrl is otherwise the distribution's domain name; FrontendStack
\* has both exactly when domainName is non-empty, whatever certificate, alias
\* or records it has.
C30_OutputsVersusResources ==
    /\ cdnStack.kind = "returned" =>
          LET p == cdnStack.input
              s == cdnStack.value
          IN  /\ "CustomDomainName" \in DOMAIN s.outputs <=> s.aRecord # Undefined
              /\ s.aRecord # Undefined =>
                    /\ s.outputs.CustomDomainName = p.domainName
                    /\ s.outputs.ApplicationUrl = <<"https://", p.domainName>>
              /\ s.aRecord = Undefined =>
                    s.outputs.ApplicationUrl = <<"https://", DistributionDomainName>>
    /\ frontendStack.kind = "returned" =>
          LET p == frontendStack.input
              s == frontendStack.value
          IN  /\ "CustomDomainName" \in DOMAIN s.outputs <=> GivenNonEmpty(p, "domainName")
              /\ GivenNonEmpty(p, "domainName") =>
                    /\ s.outputs.CustomDomainName = p.domainName
                    /\ s.outputs.ApplicationUrl = <<"https://", p.domainName>>
              /\ ~GivenNonEmpty(p, "domainName") =>
                    s.outputs.ApplicationUrl = <<"https://", DistributionDomainName>>

\* The two stacks built from a domain name alone: FrontendStack announces the
\* custom domain with no certificate, alias or record behind it, and CdnStack
\* announces the distribution's domain.
C30_Witness ==
    /\ frontendStack.kind = "returned"
    /\ cdnStack.kind = "returned"
    /\ GivenNonEmpty(stackProps, "domainName")
    /\ frontendStack.value.certificate = Undefined
    /\ ~HasAlias(frontendStack.value)
    /\ ~HasRecords(frontendStack.value)
    /\ "CustomDomainName" \in DOMAIN frontendStack.value.outputs
    /\ "CustomDomainName" \notin DOMAIN cdnStack.value.outputs
    /\ cdnStack.value.outputs.ApplicationUrl = <<"https://", DistributionDomainName>>

----------------------------------------------------------------------------
(* Claims about the entry point *)

NothingDerived == tags = NotCalled /\ awsEnv = NotCalled /\ frontendStack = NotCalled

\* C21: in a run of app.ts the tags, the environment and the FrontendStack
\* exist only once getConfig has returned a record of an input that violates
\* no field of the schema, the stack only once the tags and the environment
\* exist, and all three are made from that record; when getConfig has
\* thrown, the run is over with no tags, no environment and no stack.
C21_FailFast ==
    /\ ~NothingDerived =>
          /\ config.kind = "returned"
          /\ Violated(configSchema, config.input) = {}
          /\ \A f \in Fields(configSchema) :
                f.key \in DOMAIN config.value => Satisfies(f, config.value[f.key])
          /\ "CDK_ENV" \in DOMAIN config.value
    /\ tags.kind = "returned" => tags.input = config.value
    /\ awsEnv.kind = "returned" => tags.kind = "returned" /\ awsEnv.input.config = config.value
    /\ frontendStack.kind = "returned" =>
          /\ tags.kind = "returned" /\ awsEnv.kind = "returned"
          /\ frontendStack.input.tags = tags.value
          /\ Get(frontendStack.input, "env") = awsEnv.value
          /\ frontendStack.input.envName = config.value["CDK_ENV"]
    /\ Violated(configSchema, processEnv) # {} /\ config # NotCalled =>
          config.kind = "thrown" /\ pc = "exit" /\ NothingDerived
    /\ config.kind = "thrown" => pc = "exit" /\ NothingDerived
    /\ pc = "exit" => ~ENABLED EntryNext

\* A run that ended at getConfig's error: CDK_ENV was not one of the three.
C21_Witness ==
    /\ pc = "exit"
    /\ config.kind = "thrown"
    /\ "CDK_ENV" \in DOMAIN config.input
    /\ NothingDerived

----------------------------------------------------------------------------
(* Claims about precedence and empty values *)

DefaultAccount == awsEnv.input.defaultAccount

DefaultRegion == awsEnv.input.defaultRegion

\* C26: precedence is per field.  With a non-empty explicit account, no
\* explicit region and a non-empty default region, the result is the pair of
\* the explicit account and the default region, whatever the default account
\* is; and likewise with the fields exchanged.  A result never holds the
\* default account beside a non-empty explicit account that differs from it,
\* nor the default region beside such an explicit region.
C26_PerFieldPrecedence ==
    awsEnv.kind = "returned" =>
        /\ (/\ NonEmptyString(ExplicitAccount)
            /\ IsBlank(ExplicitRegion)
            /\ NonEmptyString(DefaultRegion))
              => awsEnv.value = [account |-> ExplicitAccount, region |-> DefaultRegion]
        /\ (/\ NonEmptyString(ExplicitRegion)
            /\ IsBlank(ExplicitAccount)
            /\ NonEmptyString(DefaultAccount))
              => awsEnv.value = [account |-> DefaultAccount, region |-> ExplicitRegion]
        /\ (awsEnv.value # Undefined /\ NonEmptyString(ExplicitAccount))
              => awsEnv.value.account = ExplicitAccount
        /\ (awsEnv.value # Undefined /\ NonEmptyString(ExplicitRegion))
              => awsEnv.value.region = ExplicitRegion

\* An explicit account, no explicit region, both defaults set and the default
\* account different from the explicit one: the mixed pair came back.
C26_Witness ==
    /\ awsEnv.kind = "returned"
    /\ NonEmptyString(ExplicitAccount)
    /\ "CDK_REGION" \notin DOMAIN awsEnv.input.config
    /\ NonEmptyString(DefaultAccount)
    /\ DefaultAccount # ExplicitAccount
    /\ NonEmptyString(DefaultRegion)
    /\ awsEnv.value = [account |-> ExplicitAccount, region |-> DefaultRegion]

\* C27: an empty CDK_ACCOUNT or CDK_REGION does not fail validation and is
\* in the record as the empty string; getEnvironmentConfig then takes that
\* field from CDK_DEFAULT_*; an empty CDK_DEFAULT_* value is as good as none,
\* so the result is undefined, and no result holds an empty string.
C27_EmptyCountsAsAbsent ==
    /\ config.kind # "none" =>
          \A k \in {"CDK_ACCOUNT", "CDK_REGION"} :
              Get(config.input, k) = Str("") =>
                  /\ config.kind = "thrown" => k \notin EntryPaths(config.message)
                  /\ config.kind = "returned" <=> Violated(configSchema, config.input) = {}
                  /\ config.kind = "returned" => config.value[k] = Str("")
    /\ awsEnv.kind = "returned" =>
          /\ (ExplicitAccount = Str("") /\ awsEnv.value # Undefined)
                => awsEnv.value.account = DefaultAccount
          /\ (ExplicitRegion = Str("") /\ awsEnv.value # Undefined)
                => awsEnv.value.region = DefaultRegion
          /\ (/\ ExplicitAccount = Str("")
              /\ NonEmptyString(DefaultAccount)
              /\ NonEmptyString(ExplicitRegion) \/ NonEmptyString(DefaultRegion))
                => awsEnv.value # Undefined
          /\ (/\ ExplicitRegion = Str("")
              /\ NonEmptyString(DefaultRegion)
              /\ NonEmptyString(ExplicitAccount) \/ NonEmptyString(DefaultAccount))
                => awsEnv.value # Undefined
          /\ (IsBlank(ExplicitAccount) /\ DefaultAccount = Str("")) => awsEnv.value = Undefined
          /\ (IsBlank(ExplicitRegion) /\ DefaultRegion = Str("")) => awsEnv.value = Undefined
          /\ awsEnv.value # Undefined =>
                awsEnv.value.account # Str("") /\ awsEnv.value.region # Str("")

\* CDK_ACCOUNT was exported empty, getConfig returned it as the empty
\* string, and the account of the result is CDK_DEFAULT_ACCOUNT.
C27_Witness ==
    /\ awsEnv.kind = "returned"
    /\ config.kind = "returned"
    /\ Get(config.input, "CDK_ACCOUNT") = Str("")
    /\ ExplicitAccount = Str("")
    /\ awsEnv.value # Undefined
    /\ awsEnv.value.account = DefaultAccount

FirstNonEmpty(a, b) == IF NonEmptyString(a) THEN a ELSE b

\* The pair four values resolve to.
Resolved(account, region, defaultAccount, defaultRegion) ==
    LET a == FirstNonEmpty(account, defaultAccount)
        r == FirstNonEmpty(region, defaultRegion)
    IN  IF NonEmptyString(a) /\ NonEmptyString(r)
        THEN [account |-> a, region |-> r]
        ELSE Undefined

\* C29: the result of getEnvironmentConfig is determined by the CDK_ACCOUNT
\* and CDK_REGION of the record getConfig returned and by the
\* CDK_DEFAULT_ACCOUNT and CDK_DEFAULT_REGION of process.env when
\* getEnvironmentConfig is called: what process.env holds for CDK_ACCOUNT and
\* CDK_REGION by then, and what it held for CDK_DEFAULT_* when getConfig ran,
\* have no part in it.
C29_FourInputs ==
    awsEnv.kind = "returned" =>
        /\ awsEnv.input.config = config.value
        /\ awsEnv.value = Resolved(Get(config.value, "CDK_ACCOUNT"),
                                   Get(config.value, "CDK_REGION"),
                                   DefaultAccount, DefaultRegion)

\* After getConfig, process.env.CDK_ACCOUNT was set and CDK_DEFAULT_ACCOUNT
\* was changed: the result has the new default account and not the new
\* CDK_ACCOUNT.
C29_Witness ==
    /\ awsEnv.kind = "returned"
    /\ "CDK_ACCOUNT" \notin DOMAIN config.input
    /\ NonEmptyString(Get(processEnv, "CDK_ACCOUNT"))
    /\ NonEmptyString(Get(config.input, "CDK_DEFAULT_ACCOUNT"))
    /\ DefaultAccount # Get(config.input, "CDK_DEFAULT_ACCOUNT")
    /\ DefaultAccount = Get(processEnv, "CDK_DEFAULT_ACCOUNT")
    /\ awsEnv.value # Undefined
    /\ awsEnv.value.account = DefaultAccount
    /\ awsEnv.value.account # Get(processEnv, "CDK_ACCOUNT")

----------------------------------------------------------------------------
(* Claims about the keys and the defaults of the validated record *)

\* The input without the keys the schema does not declare.
Declared(input) == [k \in DOMAIN input \cap SchemaKeys |-> input[k]]

\* C25: the record getConfig returns has the schema's keys and no other: the
\* keys that are in the input or have a default, each read from the input's
\* value of that key, and no key of process.env that the schema does not
\* declare; and whether getConfig fails, and what its error says, is decided
\* by the declared keys alone.
C25_DeclaredKeysOnly ==
    config.kind # "none" =>
        /\ config.kind = "returned" =>
              /\ DOMAIN config.value \subseteq SchemaKeys
              /\ \A k \in DOMAIN config.input \ SchemaKeys : k \notin DOMAIN config.value
              /\ \A f \in Fields(configSchema) :
                    f.key \in DOMAIN config.value <=>
                        (f.key \in DOMAIN config.input \/ f.hasDefault)
              /\ \A k \in DOMAIN config.input \cap SchemaKeys :
                    config.value[k] = config.input[k]
        /\ config.kind = "thrown" =>
              /\ Violated(configSchema, Declared(config.input)) # {}
              /\ EntryPaths(config.message) \subseteq SchemaKeys
        /\ Violated(configSchema, Declared(config.input)) = {} => config.kind = "returned"

\* getConfig returned a record from an environment holding PATH and
\* CDK_DEFAULT_ACCOUNT, and neither is in the record.
C25_Witness ==
    /\ config.kind = "returned"
    /\ {"PATH", "CDK_DEFAULT_ACCOUNT"} \subseteq DOMAIN config.input
    /\ DOMAIN config.value \cap OtherKeys = {}

TagOf(k) ==
    CASE k = "CDK_APP_NAME" -> "App"
      [] k = "CDK_ENV"      -> "Env"
      [] k = "CDK_OU"       -> "OU"
      [] k = "CDK_OWNER"    -> "Owner"

\* C28: a default stands in for an absent key only.  When a key that has a
\* default is in the input as the empty string, that does not make getConfig
\* fail and the record holds the empty string for it; the record holds the
\* default exactly for the keys that are absent; getTags hands the empty
\* string on, and OU or Owner is "unknown" only when CDK_OU or CDK_OWNER is
\* absent.
C28_DefaultOnlyWhenAbsent ==
    /\ config.kind # "none" =>
          \A f \in Fields(configSchema) :
              f.hasDefault =>
                  /\ config.kind = "thrown" => f.key \notin EntryPaths(config.message)
                  /\ config.kind = "returned" =>
                        /\ f.key \notin DOMAIN config.input => config.value[f.key] = f.default
                        /\ Get(config.input, f.key) = Str("") => config.value[f.key] = Str("")
                        /\ f.key \in DOMAIN config.input =>
                              config.value[f.key] = config.input[f.key]
    /\ (config.kind = "returned" /\ tags.kind = "returned") =>
          \A k \in {"CDK_APP_NAME", "CDK_OU", "CDK_OWNER"} :
              /\ Get(config.input, k) = Str("") => tags.value[TagOf(k)] = Str("")
              /\ (k # "CDK_APP_NAME" /\ tags.value[TagOf(k)] = Str("unknown"))
                    => k \notin DOMAIN config.input

\* CDK_OWNER and CDK_ASSET_PATH were there as empty strings: getConfig
\* returned them empty, the tags have an empty Owner, and OU, which was
\* absent, is "unknown".
C28_Witness ==
    /\ config.kind = "returned"
    /\ tags.kind = "returned"
    /\ Get(config.input, "CDK_OWNER") = Str("")
    /\ Get(config.input, "CDK_ASSET_PATH") = Str("")
    /\ "CDK_OU" \notin DOMAIN config.input
    /\ config.value["CDK_OWNER"] = Str("")
    /\ config.value["CDK_ASSET_PATH"] = Str("")
    /\ tags.value.Owner = Str("")
    /\ tags.value.OU = Str("unknown")

====
